---------------------------- MODULE Spec2Model ----------------------------
(***************************************************************************)
(* A state-machine model of the dooftrack reading tracker:                 *)
(*   - the persistence client of src/services/store.ts, run as concurrent  *)
(*     async calls against the manhwa / reading_progress tables;           *)
(*   - the offline cache worker of src/public/service-worker.js, run as    *)
(*     concurrent fetch events against the three cache partitions;         *)
(*   - the rate-limited fetch of the two catalog clients, run as           *)
(*     concurrent calls against a clock;                                   *)
(*   - unlockAchievement / checkAchievements of store.ts, run as           *)
(*     concurrent calls against the achievements table;                    *)
(*   - the getUserId memo of store.ts and its invalidation;                *)
(* Every await of the source is a step boundary: other calls may run       *)
(* between two steps of one call.                                          *)
(***************************************************************************)
EXTENDS Integers, Sequences, FiniteSets, TLC

(***************************************************************************)
(* Bounds of the model.                                                    *)
(***************************************************************************)
\* number of store calls (addToLibrary / updateProgress / removeFromLibrary)
NCalls == 3
\* number of backend requests that may fail (network / PostgREST error)
MaxFaults == 1

\* number of fetch events the worker handles at the same time
NTasks == 1

\* number of rateLimitedFetch calls, and of clock ticks
NRateCalls == 3
MaxTicks == 4

\* number of unlockAchievement / checkAchievements calls
NAchCalls == 2

\* number of identity lookups (supabase.auth.getUser)
MaxLookups == 2

\* number of readings of the session idle monitor's clock
MaxSessionTicks == 8

\* number of exceptions the children of the error boundary throw
MaxThrows == 4

\* number of concurrent calls of catalog-client operations
NCatalogCalls == 2
\* the details page is followed for MaxDetailsTicks half seconds
MaxDetailsTicks == 6
\* number of entries of the library a goal is calculated over
MaxItems == 2

Procs == 1..NCalls
Tasks == 1..NTasks
RateProcs == 1..NRateCalls
AchProcs == 1..NAchCalls
Lookups == 1..MaxLookups

(***************************************************************************)
(* Values.                                                                 *)
(***************************************************************************)
\* the signed-in user; NoUser is what getUserId resolves to when signed out
TheUser == "u1"
NoUser == "null"
\* external catalog ids (Manhwa.source_id)
SourceIds == {"s1", "s2"}
\* "no row" / "no id": database ids are 1, 2, ...
NoId == 0
\* undefined fields of a Partial<UserProgress>
UndefStr == "undefined"
UndefNum == -1

\* src/types.ts ReadingStatus
READING == "Reading"
COMPLETED == "Completed"
ON_HOLD == "On Hold"
DROPPED == "Dropped"
PLAN_TO_READ == "Plan to Read"
ReadingStatus == {READING, COMPLETED, ON_HOLD, DROPPED, PLAN_TO_READ}

\* the status argument addToLibrary is called with (quickStartReading's; the
\* function passes the status on to the inserted row and branches on nothing
\* of it, and the default PLAN_TO_READ reaches the rows through updateProgress)
AddStatuses == {READING}

\* the Partial<UserProgress> arguments updateProgress is called with
Updates ==
  { [status |-> COMPLETED, last_chapter |-> 5, rating |-> 10, notes |-> "n"],
    [status |-> UndefStr, last_chapter |-> 7, rating |-> UndefNum, notes |-> UndefStr] }
NoUpdate == [status |-> UndefStr, last_chapter |-> UndefNum, rating |-> UndefNum, notes |-> UndefStr]
\* "no upsert yet" in the history of upserts
NoRow == [manhwa_id |-> 0, status |-> "-", last_chapter |-> 0, rating |-> 0, notes |-> ""]

VARIABLES
  \* ---- backend tables (the state the persistence client acts on)
  manhwa,      \* set of rows [id, user_id, source_id] of table manhwa
  progress,    \* set of rows of table reading_progress
  nextId,      \* next id the backend gives to an inserted manhwa row
  nextPid,     \* next id the backend gives to an inserted reading_progress row
  faults,      \* number of backend requests that have failed so far
  \* ---- the store calls in flight
  calls,       \* calls[p]: operation, position and locals of call p
  \* ---- history (observation only)
  finished,    \* what the calls that have returned or thrown ended with
  lastUpsert,  \* lastUpsert[id]: the row values of the last applied upsert, and
               \* the number of upserts applied (counted up to two)
  returned,    \* ids that completed addToLibrary calls have returned
  removing,    \* ids removeFromLibrary has been invoked on
  \* ---- offline cache worker
  caches,      \* caches[name]: the entries of a partition, path |-> response
  tasks,       \* tasks[t]: the fetch event handled in slot t
  served,      \* the last 200 response of a finished catalog-proxy handler
               \* since the API partition was last deleted (history,
               \* observation only)
  phase,       \* the worker's lifecycle state: "installed", then "active"
  clearing,    \* the CLEAR_CACHE message being handled
  \* ---- rate-limited fetch of the catalog clients
  now,              \* Date.now(), in ms since the page was loaded
  lastRequestTime,  \* lastRequestTime[client]: the module variable of each client
  rateCalls,        \* rateCalls[p]: position of rateLimitedFetch call p
  issued,           \* issued[client]: the times fetch was called at (history)
  \* ---- achievements
  achievements,     \* set of rows [id, user_id, achievement_type]
  nextAchId,        \* next id the backend gives to an inserted achievement row
  achCalls,         \* achCalls[p]: position and locals of call p
  achFaults,        \* number of achievement requests that have failed so far
  \* ---- getUserId memo
  cachedUserId,     \* the module variable cachedUserId
  userIdPromise,    \* the lookup behind the module variable userIdPromise, or NoLookup
  lookups,          \* lookups[l]: position of identity lookup l
  session,          \* the user signed in at the auth client (none until the
                    \* stored session is restored, which is an auth event)
  sinceEvent,       \* history: no getUserId call was made since the last auth event
  memoized,         \* history: a lookup started after the last auth event has
                    \* resolved to a user id since that event
  lastCall,         \* history: what the last getUserId call found and did
  memoStale,        \* history: cachedUserId was written by a lookup that was
                    \* answered before the last auth event
  \* ---- session idle monitor
  sessionNow,        \* Date.now(), in ms since the monitor was built
  tracking,          \* the activity listeners are attached
  lastActivity,      \* the field lastActivity
  warningTimeoutId,  \* due time of the pending warning timer, or NoTimer
  timeoutId,         \* due time of the pending logout timer, or NoTimer
  fired,             \* history: the callbacks run since the last activity
  \* ---- error boundary
  hasError,          \* state.hasError
  error,             \* state.error
  errorInfo,         \* state.errorInfo
  rendered,          \* what the last render() of the boundary returned
  boundaryPc,        \* "mounted", "retry" (rendering again after an
                     \* exception), "unmounted"
  thrown,            \* number of exceptions the children have thrown
  reported,          \* history: the errors handed to props.onError
  \* ---- password change on the account page
  account,           \* the handler: position, the fields of the form, the
                     \* arguments and the result of updateUserPassword
  backendPassword,   \* the password of the account at the auth backend
  passwordError,     \* state passwordError: the error message shown
  passwordSuccess,   \* state passwordSuccess: the success message shown
  passwordLoading,   \* state passwordLoading: the submit button is disabled
  hideTimer,         \* the timer that hides the form is pending
  \* ---- search page
  page,              \* the state of the Search component, whether a search is
                     \* in flight and whether the save effect is to run
  sessionStorage,    \* the entry under SEARCH_STATE_KEY, or NoEntry
  lastHandled,       \* history: the handler that ran last
  \* ---- catalog client
  catalogCalls,      \* catalogCalls[p]: position of call p and what it ended with
  \* ---- notification settings
  localStorage,      \* the item under NOTIFICATION_SETTINGS_KEY, or NoItem
  lastSaved,         \* history: the settings last saved since the storage was empty
  lastGot,           \* history: what getNotificationSettings returned since then
  \* ---- details page
  detailsNow,        \* Date.now(), in ms since the page was opened
  details,           \* the state of the Details component
  loadTimer,         \* due time of the timer that sets initialLoadDone, or NoTimer
  autoSaveTimer,     \* the timer of debouncedAutoSave and the arguments it holds
  saveRequests,      \* the upserts of updateProgress calls the backend has not applied yet
  removal,           \* the removeFromLibrary call of handleDelete
  lastEdit,          \* history: the time of the last edit of the form
  lastWrite,         \* history: the last auto-save write sent, and the page's state then
  lateWrites,        \* history: the entries an upsert was applied to after their
                     \* removal had been requested
  \* ---- goal progress
  goalRun,           \* the last calculateGoalProgress call: its goal, the library
                     \* it read and the value it returned
  \* ---- search page: titles marked as added
  libraryEntries,    \* the catalog ids of the titles the user's library has an entry for
  libraryIds,        \* state libraryIds of the Search component
  libraryLoad,       \* what getLibrary() was answered with, or NoLibrary
  libraryLoaded,     \* the initial library load has completed
  adding,            \* the catalog ids whose addToLibrary call is pending
  \* ---- library page: selection mode
  libraryItems,      \* state items of useLibrary: the entries with their progress
  filters,           \* state filters of useLibrary
  selectionMode,     \* state selectionMode of the Library component
  selectedIds,       \* state selectedIds of the Library component
  lastBulk           \* history: the ids the last bulk operation acted on, and
                     \* the ids displayed when it was invoked

storeVars == <<manhwa, progress, nextId, nextPid, faults, calls, finished, lastUpsert, returned, removing>>

workerVars == <<caches, tasks, served, phase, clearing>>

rateVars == <<now, lastRequestTime, rateCalls, issued>>

achVars == <<achievements, nextAchId, achCalls, achFaults>>

authVars == <<cachedUserId, userIdPromise, lookups, session, sinceEvent, memoized, lastCall,
             memoStale>>

sessionVars == <<sessionNow, tracking, lastActivity, warningTimeoutId, timeoutId, fired>>

boundaryVars == <<hasError, error, errorInfo, rendered, boundaryPc, thrown, reported>>

accountVars == <<account, backendPassword, passwordError, passwordSuccess, passwordLoading, hideTimer>>

searchVars == <<page, sessionStorage, lastHandled>>

catalogVars == <<catalogCalls>>

notifVars == <<localStorage, lastSaved, lastGot>>
goalsVars == <<goalRun>>
marksVars == <<libraryEntries, libraryIds, libraryLoad, libraryLoaded, adding>>
libraryPageVars == <<libraryItems, filters, selectionMode, selectedIds, lastBulk>>
detailsVars == <<detailsNow, details, loadTimer, autoSaveTimer, saveRequests, removal, lastEdit,
                lastWrite, lateWrites>>

vars == <<storeVars, workerVars, rateVars, achVars, authVars, sessionVars,
          boundaryVars, accountVars, searchVars, catalogVars, notifVars,
          detailsVars, goalsVars, marksVars, libraryPageVars>>

(***************************************************************************)
(* Backend: the manhwa and reading_progress tables behind supabase.        *)
(***************************************************************************)
\* ids of manhwa rows: each call inserts at most one
Ids == 1..NCalls

\* .from('manhwa').select('id').eq('user_id', u).eq('source_id', s)
SelectManhwa(u, s) == { m \in manhwa : m.user_id = u /\ m.source_id = s }

\* .from('reading_progress').select('id').eq('manhwa_id', id)
SelectProgress(id) == { r \in progress : r.manhwa_id = id }

\* .maybeSingle(): the row when exactly one row matches; data is null when no
\* row matches and also (with an error the callers drop) when several do
MaybeSingle(rows) == IF Cardinality(rows) = 1 THEN (CHOOSE r \in rows : TRUE).id ELSE NoId

\* a request may fail while the fault budget lasts
CanFail == faults < MaxFaults

\* the row updateProgress sends: defaults for the fields left out
\* (status uses ||, so the empty string defaults too; the others use ??)
UpsertRow(manhwaId, updates) ==
  [ manhwa_id |-> manhwaId,
    status |-> IF updates.status \in {UndefStr, ""} THEN PLAN_TO_READ ELSE updates.status,
    last_chapter |-> IF updates.last_chapter = UndefNum THEN 0 ELSE updates.last_chapter,
    rating |-> IF updates.rating = UndefNum THEN 0 ELSE updates.rating,
    notes |-> IF updates.notes = UndefStr THEN "" ELSE updates.notes ]

\* the row addToLibrary inserts for a new entry
InitialProgress(manhwaId, status) ==
  [ manhwa_id |-> manhwaId, status |-> status, last_chapter |-> 0, rating |-> 0, notes |-> "" ]

WithId(row, id) ==
  [ id |-> id, manhwa_id |-> row.manhwa_id, status |-> row.status,
    last_chapter |-> row.last_chapter, rating |-> row.rating, notes |-> row.notes ]

Values(r) ==
  [ manhwa_id |-> r.manhwa_id, status |-> r.status,
    last_chapter |-> r.last_chapter, rating |-> r.rating, notes |-> r.notes ]

\* the entry a progress row may be written for: it exists and the caller owns it
\* (foreign key manhwa_id -> manhwa.id, and the row-level policy's EXISTS check)
OwnedEntry(u, id) == \E m \in manhwa : m.id = id /\ m.user_id = u

\* upsert(row, {onConflict: 'manhwa_id', ignoreDuplicates: false}): update the
\* row with this manhwa_id when there is one, insert the row otherwise
UpsertProgress_IgnoreDuplicates(row, id) ==
  IF SelectProgress(row.manhwa_id) # {}
    THEN progress
    ELSE progress \cup {WithId(row, id)}
UpsertProgress(row, id) ==
  IF SelectProgress(row.manhwa_id) # {}
    THEN { IF r.manhwa_id = row.manhwa_id THEN WithId(row, r.id) ELSE r : r \in progress }
    ELSE progress \cup {WithId(row, id)}

\* .from('reading_progress').delete().eq('manhwa_id', id)
DeleteProgress(id) == { r \in progress : r.manhwa_id # id }

\* .from('manhwa').delete().eq('id', id): the foreign key of reading_progress
\* cascades, so the rows that reference the entry go with it
ProgressAfterDeleteManhwa(id) == { r \in progress : r.manhwa_id # id }

(***************************************************************************)
(* Calls.                                                                  *)
(***************************************************************************)
IdleCall ==
  [ op |-> "none", pc |-> "idle", sid |-> "-", status |-> "-",
    id |-> NoId, upd |-> NoUpdate, userId |-> NoUser, manhwaId |-> NoId,
    outcome |-> "pending", ret |-> NoId,
    inserted |-> FALSE, sole |-> NoId ]

\* the slot of a call that has returned or thrown: its arguments and locals
\* are gone
DoneCall == [IdleCall EXCEPT !.op = "done", !.pc = "done"]

\* what a call ends with: the operation, its outcome and return value (and,
\* as history, the id it was called on, whether it inserted an entry, and the
\* entry an earlier completed addToLibrary call had returned)
Finish(c, outcome, ret) ==
  [IdleCall EXCEPT !.op = c.op, !.pc = "done", !.outcome = outcome, !.ret = ret,
                   !.id = c.id, !.inserted = c.inserted, !.sole = c.sole]

\* call p goes on as c, or ends as c
Set(p, c) ==
  /\ calls' = [calls EXCEPT ![p] = IF c.pc = "done" THEN DoneCall ELSE c]
  /\ finished' = IF c.pc = "done" THEN finished \cup {c} ELSE finished

\* calls are started in the order of their numbers
MayStart(p) ==
  /\ calls[p].op = "none"
  /\ \A q \in Procs : q < p => calls[q].op # "none"

\* source ids are numbered in the order of their first use
MayUse(sid) == sid = "s2" => nextId > 1

\* the ids a page can pass to updateProgress / removeFromLibrary: those of
\* the entries it has loaded (present, or deleted since)
KnownIds == 1..(nextId - 1)

StoreInit ==
  /\ manhwa = {}
  /\ progress = {}
  /\ nextId = 1
  /\ nextPid = 1
  /\ faults = 0
  /\ calls = [p \in Procs |-> IdleCall]
  /\ finished = {}
  /\ lastUpsert = [i \in Ids |-> [row |-> NoRow, n |-> 0]]
  /\ returned = {}
  /\ removing = {}

---------------------------------------------------------------------------
(* addToLibrary(manhwa, status)                          store.ts 170-240 *)

\* an earlier addToLibrary call of this user for this source id has completed
\* and returned id e, and e is the one entry of that user and source
SoleCompleted(user, sid) ==
  LET rows == { m \in manhwa : m.user_id = user /\ m.source_id = sid }
  IN IF Cardinality(rows) = 1 /\ \E m \in rows : m.id \in returned
       THEN (CHOOSE m \in rows : TRUE).id
       ELSE NoId

\* const userId = await getUserId(); if (!userId) throw;
\* const { data: existingManhwa } = await ...maybeSingle(); the error is dropped
AddSelect(p, user, sid, status, fail) ==
  LET c == [IdleCall EXCEPT !.op = "add", !.sid = sid, !.status = status, !.userId = user,
                            !.sole = SoleCompleted(user, sid)]
      data == IF fail THEN NoId ELSE MaybeSingle(SelectManhwa(user, sid))
  IN
  /\ MayStart(p)
  /\ MayUse(sid)
  /\ fail => CanFail /\ user # NoUser
  /\ faults' = IF fail THEN faults + 1 ELSE faults
  /\ IF user = NoUser
       THEN Set(p, Finish(c, "threw", NoId))
       ELSE IF data # NoId
              THEN Set(p, [c EXCEPT !.pc = "add_progsel", !.manhwaId = data])
              ELSE Set(p, [c EXCEPT !.pc = "add_insert"])
  /\ UNCHANGED <<manhwa, progress, nextId, nextPid, lastUpsert, returned, removing>>

\* insert({user_id, source_id, ...}).select().single(); if (insertError) throw
AddInsert(p, fail) ==
  LET c == calls[p] IN
  /\ c.pc = "add_insert"
  /\ fail => CanFail
  /\ faults' = IF fail THEN faults + 1 ELSE faults
  /\ IF fail
       THEN /\ Set(p, Finish(c, "threw", NoId))
            /\ UNCHANGED <<manhwa, nextId>>
       ELSE /\ manhwa' = manhwa \cup {[id |-> nextId, user_id |-> c.userId, source_id |-> c.sid]}
            /\ nextId' = nextId + 1
            /\ Set(p, [c EXCEPT !.pc = "add_progsel", !.manhwaId = nextId, !.inserted = TRUE])
  /\ UNCHANGED <<progress, nextPid, lastUpsert, returned, removing>>

\* const { data: existingProgress } = await ...eq('manhwa_id', manhwaId).maybeSingle()
AddProgressSelect(p, fail) ==
  LET c == calls[p]
      data == IF fail THEN NoId ELSE MaybeSingle(SelectProgress(c.manhwaId))
  IN
  /\ c.pc = "add_progsel"
  /\ fail => CanFail
  /\ faults' = IF fail THEN faults + 1 ELSE faults
  /\ IF data # NoId
       THEN /\ Set(p, Finish(c, "ok", c.manhwaId))
            /\ returned' = returned \cup {c.manhwaId}
       ELSE /\ Set(p, [c EXCEPT !.pc = "add_proginsert"])
            /\ UNCHANGED returned
  /\ UNCHANGED <<manhwa, progress, nextId, nextPid, lastUpsert, removing>>

\* insert({manhwa_id, status, last_chapter: 0, rating: 0, notes: ''});
\* if (progressError) throw; return manhwaId.  The insert is refused when the
\* entry is gone (foreign key) or already has a row (unique manhwa_id)
AddProgressInsert(p, fail) ==
  LET c == calls[p]
      refused == fail \/ ~OwnedEntry(c.userId, c.manhwaId) \/ SelectProgress(c.manhwaId) # {}
  IN
  /\ c.pc = "add_proginsert"
  /\ fail => CanFail
  /\ faults' = IF fail THEN faults + 1 ELSE faults
  /\ IF refused
       THEN /\ Set(p, Finish(c, "threw", NoId))
            /\ UNCHANGED <<progress, nextPid, returned>>
       ELSE /\ progress' = progress \cup {WithId(InitialProgress(c.manhwaId, c.status), nextPid)}
            /\ nextPid' = nextPid + 1
            /\ returned' = returned \cup {c.manhwaId}
            /\ Set(p, Finish(c, "ok", c.manhwaId))
  /\ UNCHANGED <<manhwa, nextId, lastUpsert, removing>>

---------------------------------------------------------------------------
(* updateProgress(manhwaId, updates)                     store.ts 270-307 *)

\* upsert(...).select().single(); if (error || !progress) return null
UpdateProgress(p, id, upd, fail) ==
  LET c == [IdleCall EXCEPT !.op = "update", !.userId = TheUser, !.id = id]
      row == UpsertRow(id, upd)
      refused == fail \/ ~OwnedEntry(TheUser, id)
  IN
  /\ MayStart(p)
  /\ id \in KnownIds
  /\ fail => CanFail
  /\ faults' = IF fail THEN faults + 1 ELSE faults
  /\ IF refused
       THEN /\ Set(p, Finish(c, "null", NoId))
            /\ UNCHANGED <<progress, nextPid, lastUpsert>>
       ELSE /\ progress' = UpsertProgress(row, nextPid)
            /\ nextPid' = IF SelectProgress(id) = {} THEN nextPid + 1 ELSE nextPid
            /\ lastUpsert' = [lastUpsert EXCEPT ![id] =
                                [row |-> row, n |-> IF @.n < 2 THEN @.n + 1 ELSE @.n]]
            /\ Set(p, Finish(c, "ok", NoId))
  /\ UNCHANGED <<manhwa, nextId, returned, removing>>

---------------------------------------------------------------------------
(* removeFromLibrary(id)                                 store.ts 367-393 *)

\* delete progress first; progressError is logged and the call goes on
RemoveProgress(p, id, fail) ==
  LET c == [IdleCall EXCEPT !.op = "remove", !.pc = "rm_manhwa", !.userId = TheUser, !.id = id]
  IN
  /\ MayStart(p)
  /\ id \in KnownIds
  /\ fail => CanFail
  /\ faults' = IF fail THEN faults + 1 ELSE faults
  /\ progress' = IF fail THEN progress ELSE DeleteProgress(id)
  /\ removing' = removing \cup {id}
  /\ Set(p, c)
  /\ UNCHANGED <<manhwa, nextId, nextPid, lastUpsert, returned>>

\* if (manhwaError) throw manhwaError; otherwise the call returns
RemoveOutcome_Swallowed(fail) == "ok"
RemoveOutcome_Null(fail) == IF fail THEN "null" ELSE "ok"
RemoveOutcome(fail) == IF fail THEN "threw" ELSE "ok"

\* delete the entry
RemoveManhwa(p, fail) ==
  LET c == calls[p] IN
  /\ c.pc = "rm_manhwa"
  /\ fail => CanFail
  /\ faults' = IF fail THEN faults + 1 ELSE faults
  /\ Set(p, Finish(c, RemoveOutcome(fail), NoId))
  /\ IF fail
       THEN UNCHANGED <<manhwa, progress>>
       ELSE /\ manhwa' = { m \in manhwa : m.id # c.id }
            /\ progress' = ProgressAfterDeleteManhwa(c.id)
  /\ UNCHANGED <<nextId, nextPid, lastUpsert, returned, removing>>

---------------------------------------------------------------------------
StoreNext ==
  \/ \E p \in Procs, u \in {TheUser, NoUser}, s \in SourceIds, st \in AddStatuses,
        fail \in BOOLEAN : AddSelect(p, u, s, st, fail)
  \/ \E p \in Procs, fail \in BOOLEAN : AddInsert(p, fail)
  \/ \E p \in Procs, fail \in BOOLEAN : AddProgressSelect(p, fail)
  \/ \E p \in Procs, fail \in BOOLEAN : AddProgressInsert(p, fail)
  \/ \E p \in Procs, id \in Ids, upd \in Updates, fail \in BOOLEAN :
        UpdateProgress(p, id, upd, fail)
  \/ \E p \in Procs, id \in Ids, fail \in BOOLEAN : RemoveProgress(p, id, fail)
  \/ \E p \in Procs, fail \in BOOLEAN : RemoveManhwa(p, fail)

(***************************************************************************)
(* Offline cache worker                          public/service-worker.js  *)
(***************************************************************************)
\* a cache name is the sequence of its parts: dooftrack-static-v1 is
\* <<"dooftrack", "static", "v1">>
CACHE_VERSION == "v1"
STATIC_CACHE == <<"dooftrack", "static", CACHE_VERSION>>
COVER_CACHE == <<"dooftrack", "covers", CACHE_VERSION>>
API_CACHE == <<"dooftrack", "api", CACHE_VERSION>>
CacheNames == {STATIC_CACHE, COVER_CACHE, API_CACHE}

\* the other caches of the origin when the worker is installed: the static
\* partition of the version before, and a cache that is not the app's
OLD_STATIC_CACHE == <<"dooftrack", "static", "v0">>
FOREIGN_CACHE == <<"other", "precache">>
AllCacheNames == CacheNames \cup {OLD_STATIC_CACHE, FOREIGN_CACHE}

\* cacheName.startsWith('dooftrack-')
HasAppPrefix(name) == Len(name) > 1 /\ Head(name) = "dooftrack"

\* a URL path is the sequence of its segments: /api/cover/a is <<"api","cover","a">>
IndexHtml == <<"index.html">>
PRECACHE_ASSETS == { <<>>, IndexHtml, <<"manifest.json">>, <<"logo-dark.png">>, <<"logo-light.png">> }

\* pathname.startsWith('/api/cover/') and the like: the prefix ends in a slash,
\* so the path goes on after the prefix's segments
StartsWith(path, dir) ==
  Len(path) > Len(dir) /\ SubSeq(path, 1, Len(dir)) = dir

\* the requests the pages make (path, request.destination, whether the accept
\* header includes text/html, method)
Req(path, dest, html, method) == [path |-> path, dest |-> dest, html |-> html, method |-> method]
Requests ==
  { Req(<<"api", "cover", "a">>, "image", FALSE, "GET"),
    Req(<<"api", "cover", "a">>, "script", FALSE, "GET"),
    Req(<<"api", "mangadex", "manga">>, "", FALSE, "GET"),
    Req(<<"api", "mangadex", "manga">>, "document", TRUE, "GET"),
    Req(<<"api", "mangadex", "manga">>, "", FALSE, "POST"),
    Req(<<"assets", "app.js">>, "script", FALSE, "GET"),
    Req(<<"assets", "app.js">>, "document", TRUE, "GET"),
    Req(<<"main.css">>, "style", FALSE, "GET"),
    Req(<<"library">>, "document", TRUE, "GET"),
    Req(<<"library">>, "", TRUE, "GET"),
    Req(<<"library">>, "", FALSE, "GET") }
Paths == { r.path : r \in Requests } \cup PRECACHE_ASSETS

\* responses: a status and the body it carries
Resp(status, body) == [status |-> status, body |-> body]
\* nothing (undefined): no cache entry, no response yet
NoResp == Resp(0, "none")
\* a rejected fetch / what the page gets when respondWith has no response
NetError == Resp(0, "network error")
\* new Response(JSON.stringify({error: 'offline', ...}), {status: 503})
OfflineResponse == Resp(503, "offline")
\* what the network answers: the resource (covers and catalog data change, so
\* they come in two versions), another successful status, an error status, or
\* no answer
NetOutcomes(r) ==
  IF StartsWith(r.path, <<"api", "cover">>)
    THEN { Resp(200, "v1"), Resp(200, "v2"), Resp(404, "not found"), NetError }
    ELSE IF StartsWith(r.path, <<"assets">>) \/ r.dest \in {"script", "style", "font"}
           THEN { Resp(200, "v1"), Resp(204, "empty"), Resp(404, "not found"), NetError }
           ELSE { Resp(200, "v1"), Resp(404, "not found"), NetError }

\* first match wins
IsCover(r) == StartsWith(r.path, <<"api", "cover">>)
IsApi(r) == StartsWith(r.path, <<"api", "mangadex">>)
IsStatic(r) == r.dest \in {"script", "style", "font"} \/ StartsWith(r.path, <<"assets">>)
IsHtml(r) == r.dest = "document" \/ r.html

Dispatch_StaticFirst(r) ==
  IF IsStatic(r) THEN "static"
  ELSE IF IsCover(r) THEN "cover"
  ELSE IF IsApi(r) THEN "api"
  ELSE IF IsHtml(r) THEN "html"
  ELSE "pass"
Dispatch(r) ==
  IF IsCover(r) THEN "cover"
  ELSE IF IsApi(r) THEN "api"
  ELSE IF IsStatic(r) THEN "static"
  ELSE IF IsHtml(r) THEN "html"
  ELSE "pass"

\* the response a partition holds for a path, if any
Entry(cs, name, path) ==
  IF name \in DOMAIN cs /\ path \in DOMAIN cs[name] THEN cs[name][path] ELSE NoResp

\* cache.match(request) in one partition: only GET requests match
CacheMatch(name, r) == IF r.method = "GET" THEN Entry(caches, name, r.path) ELSE NoResp

\* caches.match(request): the first cache that has the request (the current
\* partitions first: the older caches are gone once the worker is active, and
\* the other caches of the origin hold nothing the worker asks for)
MatchAny(r) ==
  IF CacheMatch(STATIC_CACHE, r) # NoResp THEN CacheMatch(STATIC_CACHE, r)
  ELSE IF CacheMatch(COVER_CACHE, r) # NoResp THEN CacheMatch(COVER_CACHE, r)
  ELSE IF CacheMatch(API_CACHE, r) # NoResp THEN CacheMatch(API_CACHE, r)
  ELSE IF CacheMatch(OLD_STATIC_CACHE, r) # NoResp THEN CacheMatch(OLD_STATIC_CACHE, r)
  ELSE CacheMatch(FOREIGN_CACHE, r)

\* caches after caches.open(name): the partition is created when it is missing
CachesOpen(name) ==
  [n \in DOMAIN caches \cup {name} |-> IF n \in DOMAIN caches THEN caches[n] ELSE <<>>]

\* caches after caches.open(name) and cache.put(request, response); put
\* rejects for a request that is not a GET
CachePut(name, r, resp) ==
  IF r.method = "GET"
    THEN [CachesOpen(name) EXCEPT ![name] =
            [p \in DOMAIN @ \cup {r.path} |-> IF p = r.path THEN resp ELSE @[p]]]
    ELSE CachesOpen(name)

\* caches after caches.delete(name)
CachesDelete(name) == [n \in DOMAIN caches \ {name} |-> caches[n]]

\* if (networkResponse && networkResponse.status === 200)
ShouldCache_AnyStatus(resp) == TRUE
ShouldCache(resp) == resp.status = 200

IdleTask ==
  [ pc |-> "idle", req |-> Req(<<>>, "", FALSE, "GET"), strat |-> "none",
    cached |-> NoResp, net |-> NoResp, resp |-> NoResp, responded |-> FALSE,
    prior |-> NoResp, detached |-> FALSE ]

SetTask(t, v) == tasks' = [tasks EXCEPT ![t] = v]

\* event.respondWith settles: the page gets the response (a network error when
\* there is none)
Respond(task, resp) ==
  [task EXCEPT !.responded = TRUE, !.resp = IF resp = NoResp THEN NetError ELSE resp]

\* the handler has run to its end: what is left of it is the strategy that
\* handled the event, what the network answered and what the page got (and,
\* as history, in prior: the 200 response an earlier catalog-proxy handler
\* of the same URL had finished with when this one's fetch failed)
Done(task, out) ==
  [IdleTask EXCEPT !.pc = "done", !.strat = task.strat, !.net = out,
                   !.resp = task.resp, !.responded = TRUE]

NoClearing == [pc |-> "idle", todo |-> {}]

\* the worker has been installed: cache.addAll(PRECACHE_ASSETS) has filled the
\* static partition; the caches the origin had before are still there (the
\* static cache of an earlier version, a cover and a catalog response the
\* worker's predecessor of the same version had stored, a cache that is not
\* the app's)
WorkerInit ==
  /\ caches = [c \in {STATIC_CACHE, COVER_CACHE, API_CACHE, OLD_STATIC_CACHE, FOREIGN_CACHE} |->
                 IF c = STATIC_CACHE THEN [p \in PRECACHE_ASSETS |-> Resp(200, "v1")]
                 ELSE IF c = COVER_CACHE THEN [p \in {<<"api", "cover", "b">>} |-> Resp(200, "v1")]
                 ELSE IF c = API_CACHE THEN [p \in {<<"api", "mangadex", "tag">>} |-> Resp(200, "v1")]
                 ELSE IF c = OLD_STATIC_CACHE THEN [p \in {IndexHtml} |-> Resp(200, "v0")]
                 ELSE [p \in {<<"other.js">>} |-> Resp(200, "v1")]]
  /\ tasks = [t \in Tasks |-> IdleTask]
  /\ served = NoResp
  /\ phase = "installed"
  /\ clearing = NoClearing

\* the cache the activate listener deletes: one of the app's that is none of
\* the three current partitions
IsOutdated_AnyOther(cacheName) ==
  cacheName \notin {STATIC_CACHE, COVER_CACHE, API_CACHE}
IsOutdated(cacheName) ==
  /\ HasAppPrefix(cacheName)
  /\ cacheName # STATIC_CACHE /\ cacheName # COVER_CACHE /\ cacheName # API_CACHE

\* self.addEventListener('activate', ...): caches.keys(), delete the outdated
\* ones, clients.claim(); fetch events wait for the end of it
Activate ==
  /\ phase = "installed"
  /\ phase' = "active"
  /\ caches' = [n \in { c \in DOMAIN caches : ~IsOutdated(c) } |-> caches[n]]
  /\ UNCHANGED <<tasks, served, clearing>>

\* self.addEventListener('fetch', ...): the strategy is chosen when the event
\* is dispatched; the event takes the first slot that is free
FetchEvent(t, r) ==
  /\ phase = "active"
  /\ tasks[t].pc \in {"idle", "done"}
  /\ \A u \in Tasks : u < t => tasks[u].pc \notin {"idle", "done"}
  /\ SetTask(t, [IdleTask EXCEPT !.pc = Dispatch(r), !.req = r, !.strat = Dispatch(r)])
  /\ UNCHANGED <<caches, served, phase, clearing>>

\* Strategy 1: caches.open(COVER_CACHE), cache.match(request), fetch(request)
\* is started, and "return cachedResponse || fetchPromise"
CoverMatch(t) ==
  LET k == tasks[t]
      cachedResponse == CacheMatch(COVER_CACHE, k.req)
  IN
  /\ k.pc = "cover"
  /\ caches' = CachesOpen(COVER_CACHE)
  /\ SetTask(t, IF cachedResponse # NoResp
                  THEN [Respond(k, cachedResponse) EXCEPT !.pc = "cover_net", !.cached = cachedResponse]
                  ELSE [k EXCEPT !.pc = "cover_net", !.cached = cachedResponse])
  /\ UNCHANGED <<served, phase, clearing>>

\* the fetch settles: a 200 is put into the cache the handler opened (a put
\* into a cache that was deleted since is not seen by the caches of the
\* origin); on failure the promise yields cachedResponse
CoverNet(t, out) ==
  LET k == tasks[t]
      value == IF out = NetError THEN k.cached ELSE out
  IN
  /\ k.pc = "cover_net"
  /\ caches' = IF out # NetError /\ ShouldCache(out) /\ ~k.detached
                 THEN CachePut(COVER_CACHE, k.req, out)
                 ELSE caches
  /\ SetTask(t, Done(IF k.responded THEN k ELSE Respond(k, value), out))
  /\ UNCHANGED <<served, phase, clearing>>

\* Strategy 2: fetch(request); the response is returned; a failure falls back
\* to caches.match(request), then to the offline response
OfflineFallback_NoBody(cachedResponse) ==
  IF cachedResponse # NoResp THEN cachedResponse ELSE Resp(503, "none")
OfflineFallback(cachedResponse) ==
  IF cachedResponse # NoResp THEN cachedResponse ELSE OfflineResponse

ApiNet(t, out) ==
  LET k == tasks[t]
      cachedResponse == MatchAny(k.req)
  IN
  /\ k.pc = "api"
  /\ IF out = NetError
       THEN SetTask(t, [Done(Respond(k, OfflineFallback(cachedResponse)), out)
                          EXCEPT !.prior = IF k.req.method = "GET" THEN served ELSE NoResp])
       ELSE IF ShouldCache(out)
              THEN SetTask(t, [Respond(k, out) EXCEPT !.pc = "api_put", !.net = out])
              ELSE SetTask(t, Done(Respond(k, out), out))
  /\ UNCHANGED <<caches, served, phase, clearing>>

\* caches.open(API_CACHE).then(cache => cache.put(request, networkResponse.clone())):
\* the callback runs after the response went to respondWith.  When the body is
\* already in use, clone() throws and nothing is stored
ApiPut(t, bodyUsed) ==
  LET k == tasks[t] IN
  /\ k.pc = "api_put"
  /\ caches' = IF bodyUsed THEN caches ELSE CachePut(API_CACHE, k.req, k.net)
  /\ served' = IF k.req.method = "GET" THEN k.net ELSE served
  /\ SetTask(t, Done(k, k.net))
  /\ UNCHANGED <<phase, clearing>>

\* Strategy 3: caches.match(request); a hit is the response
StaticMatch_AlwaysFetch(t) ==
  /\ tasks[t].pc = "static"
  /\ SetTask(t, [tasks[t] EXCEPT !.pc = "static_net"])
  /\ UNCHANGED <<caches, served, phase, clearing>>
StaticMatch(t) ==
  LET k == tasks[t]
      cachedResponse == MatchAny(k.req)
  IN
  /\ k.pc = "static"
  /\ SetTask(t, IF cachedResponse # NoResp
                  THEN Done(Respond(k, cachedResponse), NoResp)
                  ELSE [k EXCEPT !.pc = "static_net"])
  /\ UNCHANGED <<caches, served, phase, clearing>>

\* a miss: fetch(request); a 200 is cloned and put into the static cache; there
\* is no catch, a failed fetch rejects respondWith
StaticNet(t, out) ==
  LET k == tasks[t] IN
  /\ k.pc = "static_net"
  /\ caches' = IF out # NetError /\ ShouldCache(out)
                 THEN CachePut(STATIC_CACHE, k.req, out)
                 ELSE caches
  /\ SetTask(t, Done(Respond(k, out), out))
  /\ UNCHANGED <<served, phase, clearing>>

\* Strategy 4: fetch(request); any response is put into the static cache
\* under the request and returned; a failure yields caches.match('/index.html')
HtmlNet(t, out) ==
  LET k == tasks[t]
      shell == MatchAny(Req(IndexHtml, "document", TRUE, "GET"))
  IN
  /\ k.pc = "html"
  /\ caches' = IF out # NetError THEN CachePut(STATIC_CACHE, k.req, out) ELSE caches
  /\ SetTask(t, Done(Respond(k, IF out = NetError THEN shell ELSE out), out))
  /\ UNCHANGED <<served, phase, clearing>>

\* Default: event.respondWith(fetch(request))
PassNet(t, out) ==
  LET k == tasks[t] IN
  /\ k.pc = "pass"
  /\ SetTask(t, Done(Respond(k, out), out))
  /\ UNCHANGED <<caches, served, phase, clearing>>

---------------------------------------------------------------------------
(* message listener                               service-worker.js 170-191 *)

\* {type: 'CLEAR_CACHE'}: caches.keys() is read; the caches of the app among
\* them are to be deleted (a message event does not wait for the activation)
ClearCacheMessage ==
  /\ clearing.pc \in {"idle", "replied"}
  /\ clearing' = [pc |-> "deleting", todo |-> { n \in DOMAIN caches : HasAppPrefix(n) }]
  /\ UNCHANGED <<caches, tasks, served, phase>>

\* one caches.delete(cacheName) of the Promise.all completes; a handler that
\* holds the deleted cache goes on with it
CacheDeleted(name) ==
  /\ clearing.pc = "deleting"
  /\ name \in clearing.todo
  /\ clearing' = [clearing EXCEPT !.todo = @ \ {name}]
  /\ caches' = CachesDelete(name)
  /\ tasks' = [t \in Tasks |->
                 IF name = COVER_CACHE /\ tasks[t].pc = "cover_net"
                   THEN [tasks[t] EXCEPT !.detached = TRUE] ELSE tasks[t]]
  /\ served' = IF name = API_CACHE THEN NoResp ELSE served
  /\ UNCHANGED phase

\* Promise.all(...).then(() => event.ports[0].postMessage({type: 'CACHE_CLEARED'}))
AllSettled_NoWait(todo) == TRUE
AllSettled(todo) == todo = {}

CacheCleared ==
  /\ clearing.pc = "deleting"
  /\ AllSettled(clearing.todo)
  /\ clearing' = [clearing EXCEPT !.pc = "replied"]
  /\ UNCHANGED <<caches, tasks, served, phase>>

\* the steps of the message listener
MessageNext ==
  \/ ClearCacheMessage
  \/ \E name \in AllCacheNames : CacheDeleted(name)
  \/ CacheCleared

\* the steps of the fetch listener for the events in the slots ts
FetchSteps(ts) ==
  \/ \E t \in ts, r \in Requests : FetchEvent(t, r)
  \/ \E t \in ts : CoverMatch(t)
  \/ \E t \in ts : \E out \in NetOutcomes(tasks[t].req) : CoverNet(t, out)
  \/ \E t \in ts : \E out \in NetOutcomes(tasks[t].req) : ApiNet(t, out)
  \/ \E t \in ts, bodyUsed \in BOOLEAN : ApiPut(t, bodyUsed)
  \/ \E t \in ts : StaticMatch(t)
  \/ \E t \in ts : \E out \in NetOutcomes(tasks[t].req) : StaticNet(t, out)
  \/ \E t \in ts : \E out \in NetOutcomes(tasks[t].req) : HtmlNet(t, out)
  \/ \E t \in ts : \E out \in NetOutcomes(tasks[t].req) : PassNet(t, out)

\* activation and the steps of the fetch listener
WorkerNext ==
  \/ Activate
  \/ FetchSteps(Tasks)

\* activation, the steps of the message listener and, next to them, the steps
\* of the fetch listener for one event at a time
LifecycleNext ==
  \/ Activate
  \/ MessageNext
  \/ FetchSteps({1})

(***************************************************************************)
(* Rate-limited fetch      unnamed/part_001 7-20, services/myanimelist.ts  *)
(***************************************************************************)
MANGADEX == "mangadex"
MAL == "myanimelist"
Clients == {MANGADEX, MAL}

MANGADEX_MIN_REQUEST_INTERVAL == 200
MAL_MIN_REQUEST_INTERVAL == 300
MIN_REQUEST_INTERVAL(client) ==
  IF client = MANGADEX THEN MANGADEX_MIN_REQUEST_INTERVAL ELSE MAL_MIN_REQUEST_INTERVAL

\* the clock is read every half MangaDex interval
Tick == MANGADEX_MIN_REQUEST_INTERVAL \div 2
\* Date.now() when the page is loaded: far more than an interval past 0, the
\* initial lastRequestTime
StartTime == 2 * MAL_MIN_REQUEST_INTERVAL
EndTime == StartTime + MaxTicks * Tick

IdleRateCall == [pc |-> "idle", client |-> "-", wake |-> 0]
DoneRateCall == [pc |-> "done", client |-> "-", wake |-> 0]

SetRateCall(p, c) == rateCalls' = [rateCalls EXCEPT ![p] = c]

\* lastRequestTime = Date.now(); return fetch(url, options)
Issue(client) ==
  /\ lastRequestTime' = [lastRequestTime EXCEPT ![client] = now]
  /\ issued' = [issued EXCEPT ![client] = Append(@, now)]

RateInit ==
  /\ now = StartTime
  /\ lastRequestTime = [c \in Clients |-> 0]
  /\ rateCalls = [p \in RateProcs |-> IdleRateCall]
  /\ issued = [c \in Clients |-> <<>>]

\* const now = Date.now(); const timeSinceLastRequest = now - lastRequestTime;
\* if (timeSinceLastRequest < MIN_REQUEST_INTERVAL) await the remaining time
RateLimitedFetch(p, client) ==
  LET timeSinceLastRequest == now - lastRequestTime[client] IN
  /\ rateCalls[p].pc = "idle"
  /\ \A q \in RateProcs : q < p => rateCalls[q].pc # "idle"
  /\ IF timeSinceLastRequest < MIN_REQUEST_INTERVAL(client)
       THEN /\ SetRateCall(p, [pc |-> "sleeping", client |-> client,
                               wake |-> now + (MIN_REQUEST_INTERVAL(client) - timeSinceLastRequest)])
            /\ UNCHANGED <<lastRequestTime, issued>>
       ELSE /\ Issue(client)
            /\ SetRateCall(p, DoneRateCall)
  /\ UNCHANGED now

\* the timer of setTimeout has fired (at its time or later): the call goes on
TimerFires(p) ==
  /\ rateCalls[p].pc = "sleeping"
  /\ now >= rateCalls[p].wake
  /\ Issue(rateCalls[p].client)
  /\ SetRateCall(p, DoneRateCall)
  /\ UNCHANGED now

\* time passes
ClockTick ==
  /\ now < EndTime
  /\ now' = now + Tick
  /\ UNCHANGED <<lastRequestTime, rateCalls, issued>>

RateNext ==
  \/ \E p \in RateProcs, client \in Clients : RateLimitedFetch(p, client)
  \/ \E p \in RateProcs : TimerFires(p)
  \/ ClockTick

(***************************************************************************)
(* Achievements                                  services/store.ts 703-784 *)
(***************************************************************************)
\* two of the checks of checkAchievements, in the order of the source
AchievementChecks == <<"first_manhwa", "perfect_10">>
AchievementTypes == { AchievementChecks[i] : i \in DOMAIN AchievementChecks }

\* .from('achievements').select('id').eq('user_id', u).eq('achievement_type', t)
SelectAchievements(u, t) ==
  { a \in achievements : a.user_id = u /\ a.achievement_type = t }

IdleAchCall == [pc |-> "idle", userId |-> NoUser, todo |-> <<>>]
DoneAchCall == [pc |-> "done", userId |-> NoUser, todo |-> <<>>]

SetAchCall(p, c) == achCalls' = [achCalls EXCEPT ![p] = c]

\* for (const check of achievementChecks) if (check.condition) await unlockAchievement
RECURSIVE ChecksThatHold(_, _)
ChecksThatHold(checks, conditions) ==
  IF checks = <<>> THEN <<>>
  ELSE IF Head(checks) \in conditions
         THEN <<Head(checks)>> \o ChecksThatHold(Tail(checks), conditions)
         ELSE ChecksThatHold(Tail(checks), conditions)

\* unlockAchievement has returned: the caller's loop goes on to the next check
\* that holds, or ends
NextUnlock(c) ==
  IF Len(c.todo) > 1 THEN [c EXCEPT !.pc = "select", !.todo = Tail(c.todo)] ELSE DoneAchCall

AchInit ==
  /\ achievements = {}
  /\ nextAchId = 1
  /\ achCalls = [p \in AchProcs |-> IdleAchCall]
  /\ achFaults = 0

AchMayStart(p) ==
  /\ achCalls[p].pc = "idle"
  /\ \A q \in AchProcs : q < p => achCalls[q].pc # "idle"

\* checkAchievements(): the statistics and the library are read, and decide the
\* conditions; unlockAchievement throws (and returns null) without a user
CheckAchievements(p, user, conditions) ==
  LET todo == ChecksThatHold(AchievementChecks, conditions) IN
  /\ AchMayStart(p)
  /\ SetAchCall(p, IF user = NoUser \/ todo = <<>> THEN DoneAchCall
                   ELSE [pc |-> "select", userId |-> user, todo |-> todo])
  /\ UNCHANGED <<achievements, nextAchId, achFaults>>

\* unlockAchievement({achievement_type, ...}) called on its own
UnlockAchievement(p, user, type) ==
  /\ AchMayStart(p)
  /\ SetAchCall(p, IF user = NoUser THEN DoneAchCall
                   ELSE [pc |-> "select", userId |-> user, todo |-> <<type>>])
  /\ UNCHANGED <<achievements, nextAchId, achFaults>>

\* const { data: existing } = await ...maybeSingle(); if (existing) return null
UnlockSelect(p, fail) ==
  LET c == achCalls[p]
      existing == IF fail THEN NoId
                  ELSE MaybeSingle(SelectAchievements(c.userId, Head(c.todo)))
  IN
  /\ c.pc = "select"
  /\ fail => achFaults < MaxFaults
  /\ achFaults' = IF fail THEN achFaults + 1 ELSE achFaults
  /\ SetAchCall(p, IF existing # NoId THEN NextUnlock(c) ELSE [c EXCEPT !.pc = "insert"])
  /\ UNCHANGED <<achievements, nextAchId>>

\* insert({user_id, achievement_type, ...}).select().single(); an error is
\* logged and null returned
UnlockInsert(p, fail) ==
  LET c == achCalls[p] IN
  /\ c.pc = "insert"
  /\ fail => achFaults < MaxFaults
  /\ achFaults' = IF fail THEN achFaults + 1 ELSE achFaults
  /\ IF fail
       THEN UNCHANGED <<achievements, nextAchId>>
       ELSE /\ achievements' = achievements \cup
                 {[id |-> nextAchId, user_id |-> c.userId, achievement_type |-> Head(c.todo)]}
            /\ nextAchId' = nextAchId + 1
  /\ SetAchCall(p, NextUnlock(c))

AchNext ==
  \/ \E p \in AchProcs, u \in {TheUser, NoUser}, conditions \in SUBSET AchievementTypes :
        CheckAchievements(p, u, conditions)
  \/ \E p \in AchProcs, u \in {TheUser, NoUser}, type \in AchievementTypes :
        UnlockAchievement(p, u, type)
  \/ \E p \in AchProcs, fail \in BOOLEAN : UnlockSelect(p, fail)
  \/ \E p \in AchProcs, fail \in BOOLEAN : UnlockInsert(p, fail)

(***************************************************************************)
(* getUserId memo                                   services/store.ts 17-48 *)
(***************************************************************************)
OtherUser == "u2"
Users == {TheUser, OtherUser}
NoLookup == 0

IdleLookup == [pc |-> "none", user |-> NoUser, fresh |-> FALSE, old |-> FALSE]
DoneLookup == [pc |-> "done", user |-> NoUser, fresh |-> FALSE, old |-> FALSE]
NoCall == [kind |-> "none", first |-> FALSE, memoized |-> FALSE, inflight |-> FALSE, stale |-> FALSE]

\* a lookup started after the last auth event is in flight
FreshInFlight == \E l \in Lookups : lookups[l].pc \in {"sent", "answered"} /\ lookups[l].fresh

AuthInit ==
  /\ cachedUserId = NoUser
  /\ userIdPromise = NoLookup
  /\ lookups = [l \in Lookups |-> IdleLookup]
  /\ session = NoUser
  /\ sinceEvent = FALSE
  /\ memoized = FALSE
  /\ lastCall = NoCall
  /\ memoStale = FALSE

\* getUserId(): the cached id, else the promise in flight, else a new lookup
GetUserId ==
  LET found == [first |-> sinceEvent, memoized |-> memoized, inflight |-> FreshInFlight,
                stale |-> cachedUserId # NoUser /\ memoStale]
  IN
  /\ sinceEvent' = FALSE
  /\ IF cachedUserId # NoUser
       THEN /\ lastCall' = [kind |-> "cached"] @@ found
            /\ UNCHANGED <<userIdPromise, lookups>>
       ELSE IF userIdPromise # NoLookup
              THEN /\ lastCall' = [kind |-> "joined"] @@ found
                   /\ UNCHANGED <<userIdPromise, lookups>>
              ELSE \E l \in Lookups :
                     /\ lookups[l].pc = "none"
                     /\ \A k \in Lookups : k < l => lookups[k].pc # "none"
                     /\ lookups' = [lookups EXCEPT ![l] =
                                      [pc |-> "sent", user |-> NoUser, fresh |-> TRUE, old |-> FALSE]]
                     /\ userIdPromise' = l
                     /\ lastCall' = [kind |-> "lookup"] @@ found
  /\ UNCHANGED <<cachedUserId, session, memoized, memoStale>>

\* supabase.auth.getUser() is answered for the session of that moment
LookupAnswered(l) ==
  /\ lookups[l].pc = "sent"
  /\ lookups' = [lookups EXCEPT ![l].pc = "answered", ![l].user = session]
  /\ UNCHANGED <<cachedUserId, userIdPromise, session, sinceEvent, memoized, lastCall, memoStale>>

\* the await returns: cachedUserId = user?.id || null; userIdPromise = null
LookupResolves(l) ==
  /\ lookups[l].pc = "answered"
  /\ cachedUserId' = lookups[l].user
  /\ userIdPromise' = NoLookup
  /\ memoized' = (memoized \/ (lookups[l].fresh /\ lookups[l].user # NoUser))
  /\ memoStale' = lookups[l].old
  /\ lookups' = [lookups EXCEPT ![l] = DoneLookup]
  /\ UNCHANGED <<session, sinceEvent, lastCall>>

\* supabase.auth.onAuthStateChange(() => { cachedUserId = null; userIdPromise = null })
AuthStateChange(user) ==
  /\ session' = user
  /\ cachedUserId' = NoUser
  /\ userIdPromise' = NoLookup
  /\ sinceEvent' = TRUE
  /\ memoized' = FALSE
  /\ memoStale' = FALSE
  /\ lookups' = [l \in Lookups |-> [lookups[l] EXCEPT !.fresh = FALSE,
                                                        !.old = (lookups[l].pc = "answered")]]
  /\ UNCHANGED lastCall

AuthNext ==
  \/ GetUserId
  \/ \E l \in Lookups : LookupAnswered(l)
  \/ \E l \in Lookups : LookupResolves(l)
  \/ \E u \in Users \cup {NoUser} : AuthStateChange(u)

---------------------------------------------------------------------------
---------------------------------------------------------------------------
(***************************************************************************)
(* Session idle monitor.                     src/utils/schemas.ts 49-144   *)
(*                                                                         *)
(* The two timers of a SessionTimeout built with both callbacks (as        *)
(* App.tsx builds it).  A timer runs its callback at or after its due      *)
(* time; of two timers that are due, the browser runs the one with the     *)
(* earlier due time first.                                                 *)
(***************************************************************************)
\* private readonly IDLE_TIMEOUT = 30 * 60 * 1000
IDLE_TIMEOUT == 30 * 60 * 1000
\* private readonly WARNING_BEFORE = 5 * 60 * 1000
WARNING_BEFORE == 5 * 60 * 1000
\* the clock is read every five minutes
SessionTick == WARNING_BEFORE
SessionEnd == MaxSessionTicks * SessionTick

\* a timer that is not pending (null, cleared, or run)
NoTimer == -1

\* resetTimeout(): both timers are cleared and set again
ResetTimeout ==
  /\ warningTimeoutId' = sessionNow + (IDLE_TIMEOUT - WARNING_BEFORE)
  /\ timeoutId' = sessionNow + IDLE_TIMEOUT

SessionInit ==
  /\ sessionNow = 0
  /\ tracking = TRUE
  /\ lastActivity = 0
  /\ warningTimeoutId = IDLE_TIMEOUT - WARNING_BEFORE
  /\ timeoutId = IDLE_TIMEOUT
  /\ fired = <<>>

\* handleActivity, run by one of the document's activity events:
\* this.lastActivity = Date.now(); this.resetTimeout()
HandleActivity_NoReset ==
  /\ tracking
  /\ lastActivity' = sessionNow
  /\ fired' = <<>>
  /\ UNCHANGED <<sessionNow, tracking, warningTimeoutId, timeoutId>>
HandleActivity ==
  /\ tracking
  /\ lastActivity' = sessionNow
  /\ ResetTimeout
  /\ fired' = <<>>
  /\ UNCHANGED <<sessionNow, tracking>>

\* resetActivity(): this.handleActivity(), whether or not destroy() has run
ResetActivity ==
  /\ lastActivity' = sessionNow
  /\ ResetTimeout
  /\ fired' = <<>>
  /\ UNCHANGED <<sessionNow, tracking>>

\* the warning timer runs this.onWarning
WarningFires ==
  /\ warningTimeoutId # NoTimer /\ sessionNow >= warningTimeoutId
  /\ warningTimeoutId' = NoTimer
  /\ fired' = Append(fired, [callback |-> "onWarning", at |-> sessionNow])
  /\ UNCHANGED <<sessionNow, tracking, lastActivity, timeoutId>>

\* the logout timer runs this.onTimeout
TimeoutFires ==
  /\ timeoutId # NoTimer /\ sessionNow >= timeoutId
  /\ warningTimeoutId = NoTimer \/ warningTimeoutId > timeoutId
  /\ timeoutId' = NoTimer
  /\ fired' = Append(fired, [callback |-> "onTimeout", at |-> sessionNow])
  /\ UNCHANGED <<sessionNow, tracking, lastActivity, warningTimeoutId>>

\* destroy(): the listeners are removed and both timers cleared
Destroy ==
  /\ tracking
  /\ tracking' = FALSE
  /\ warningTimeoutId' = NoTimer
  /\ timeoutId' = NoTimer
  /\ UNCHANGED <<sessionNow, lastActivity, fired>>

\* time passes
SessionClock ==
  /\ sessionNow < SessionEnd
  /\ sessionNow' = sessionNow + SessionTick
  /\ UNCHANGED <<tracking, lastActivity, warningTimeoutId, timeoutId, fired>>

SessionNext ==
  \/ HandleActivity
  \/ ResetActivity
  \/ WarningFires
  \/ TimeoutFires
  \/ Destroy
  \/ SessionClock

---------------------------------------------------------------------------
(***************************************************************************)
(* Error boundary.                  src/components/ErrorBoundary.tsx 35-106 *)
(*                                                                         *)
(* React's handling of an exception thrown while the children render: it   *)
(* applies getDerivedStateFromError to the nearest boundary and renders    *)
(* the boundary again; when the children it returns render, the boundary   *)
(* is committed and componentDidCatch runs; when they throw again, the     *)
(* boundary has failed and the exception goes to the next boundary up, for *)
(* the top-level boundary to nothing: React unmounts the tree.             *)
(***************************************************************************)
Errors == {"e1", "e2"}
NoError == "null"
\* React.ErrorInfo: the component stack of the exception
ErrorInfoOf(e) == IF e = "e1" THEN "stack1" ELSE "stack2"

\* render(): the recovery screen when hasError && error && errorInfo, else
\* the children
Render(has, err, info) ==
  IF has /\ err # NoError /\ info # NoError THEN "recovery" ELSE "children"

BoundaryInit ==
  /\ hasError = FALSE
  /\ error = NoError
  /\ errorInfo = NoError
  /\ rendered = "children"
  /\ boundaryPc = "mounted"
  /\ thrown = 0
  /\ reported = <<>>

\* a child throws while it renders: getDerivedStateFromError(e) gives
\* {hasError: true, error}, and React calls render() of the boundary again
ChildThrows(e) ==
  /\ boundaryPc = "mounted" /\ rendered = "children"
  /\ thrown < MaxThrows
  /\ thrown' = thrown + 1
  /\ hasError' = TRUE
  /\ error' = e
  /\ rendered' = Render(TRUE, e, errorInfo)
  /\ boundaryPc' = "retry"
  /\ UNCHANGED <<errorInfo, reported>>

\* what the second render() returned has rendered: the boundary is committed
\* and componentDidCatch(e, errorInfo) runs: setState({error, errorInfo}),
\* this.props.onError(error, errorInfo), and the render() that the setState
\* brings about
RetryCommits ==
  /\ boundaryPc = "retry"
  /\ errorInfo' = ErrorInfoOf(error)
  /\ reported' = Append(reported, error)
  /\ rendered' = Render(hasError, error, ErrorInfoOf(error))
  /\ boundaryPc' = "mounted"
  /\ UNCHANGED <<hasError, error, thrown>>

\* the second render() returned the children and they throw again: the
\* boundary is not committed, componentDidCatch does not run, the tree is
\* unmounted
RetryThrows(e) ==
  /\ boundaryPc = "retry" /\ rendered = "children"
  /\ thrown < MaxThrows
  /\ thrown' = thrown + 1
  /\ boundaryPc' = "unmounted"
  /\ rendered' = "nothing"
  /\ UNCHANGED <<hasError, error, errorInfo, reported>>

\* resetError, the reset handed to the recovery screen:
\* setState({hasError: false, error: null, errorInfo: null}), and render()
ResetError ==
  /\ boundaryPc = "mounted" /\ rendered = "recovery"
  /\ hasError' = FALSE
  /\ error' = NoError
  /\ errorInfo' = NoError
  /\ rendered' = Render(FALSE, NoError, NoError)
  /\ UNCHANGED <<boundaryPc, thrown, reported>>

\* the page is loaded again: the boundary is constructed and mounted
Reload ==
  /\ boundaryPc \in {"mounted", "unmounted"}
  /\ hasError' = FALSE
  /\ error' = NoError
  /\ errorInfo' = NoError
  /\ rendered' = "children"
  /\ boundaryPc' = "mounted"
  /\ UNCHANGED <<thrown, reported>>

BoundaryNext ==
  \/ \E e \in Errors : ChildThrows(e)
  \/ RetryCommits
  \/ \E e \in Errors : RetryThrows(e)
  \/ ResetError
  \/ Reload

---------------------------------------------------------------------------
(***************************************************************************)
(* Password change.   src/pages/Account.tsx 83-126, store.ts 520-552       *)
(***************************************************************************)
Email == "reader@example.org"
\* what is typed into the fields of the form
Passwords == {"hunter22", "correct1", "short"}
NoPassword == ""

\* what updateUserPassword returns: { success, error? }
Result(success, err) == [success |-> success, error |-> err]
NoResult == Result(FALSE, "pending")

IdleAccount ==
  [ pc |-> "start", currentPassword |-> "", newPassword |-> "", confirmPassword |-> "",
    argCurrentPassword |-> "", argNewPassword |-> "", result |-> NoResult ]

AccountInit ==
  /\ account = IdleAccount
  /\ backendPassword = NoPassword
  /\ passwordError = ""
  /\ passwordSuccess = ""
  /\ passwordLoading = FALSE
  /\ hideTimer = FALSE

\* supabase.auth.signUp({email, password}): the account gets its password
SignUp(password) ==
  /\ account.pc = "start"
  /\ backendPassword' = password
  /\ account' = [account EXCEPT !.pc = "form"]
  /\ UNCHANGED <<passwordError, passwordSuccess, passwordLoading, hideTimer>>

\* handlePasswordChange up to its first await: the messages are cleared, the
\* fields validated
HandlePasswordChange(current, new, confirm) ==
  LET invalid ==
        IF Len(new) < 8 THEN "New password must be at least 8 characters long"
        ELSE IF new # confirm THEN "New passwords do not match"
        ELSE IF current = new THEN "New password must be different from current password"
        ELSE ""
  IN
  /\ account.pc = "form" /\ ~passwordLoading
  /\ passwordSuccess' = ""
  /\ passwordError' = invalid
  /\ passwordLoading' = (invalid = "")
  /\ account' = [IdleAccount EXCEPT !.pc = IF invalid = "" THEN "getUser" ELSE "form",
                                    !.currentPassword = current, !.newPassword = new,
                                    !.confirmPassword = confirm]
  /\ UNCHANGED <<backendPassword, hideTimer>>

\* const { data: { user } } = await supabase.auth.getUser(); without a user
\* the handler throws and its catch shows the message; with one it calls
\* updateUserPassword(user.email!, currentPassword, newPassword), whose
\* parameters are (currentPassword, newPassword)
HandlerGetUser(found) ==
  /\ account.pc = "getUser"
  /\ IF found
       THEN /\ account' = [account EXCEPT !.pc = "storeGetUser",
                                          !.argCurrentPassword = Email,
                                          !.argNewPassword = account.currentPassword]
            /\ UNCHANGED <<passwordError, passwordLoading>>
       ELSE /\ account' = [account EXCEPT !.pc = "form"]
            /\ passwordError' = "User not authenticated"
            /\ passwordLoading' = FALSE
  /\ UNCHANGED <<backendPassword, passwordSuccess, hideTimer>>

\* updateUserPassword: supabase.auth.getUser(); no user, or an exception the
\* catch turns into a result
StoreGetUser(outcome) ==
  /\ account.pc = "storeGetUser"
  /\ account' =
       IF outcome = "user" THEN [account EXCEPT !.pc = "signIn"]
       ELSE IF outcome = "none"
         THEN [account EXCEPT !.pc = "returned", !.result = Result(FALSE, "User not authenticated")]
         ELSE [account EXCEPT !.pc = "returned", !.result = Result(FALSE, "Failed to fetch")]
  /\ UNCHANGED <<backendPassword, passwordError, passwordSuccess, passwordLoading, hideTimer>>

\* supabase.auth.signInWithPassword({email: user.email, password: currentPassword})
SignInWithPassword(reachable) ==
  /\ account.pc = "signIn"
  /\ account' =
       IF reachable /\ account.argCurrentPassword = backendPassword
         THEN [account EXCEPT !.pc = "updateUser"]
         ELSE [account EXCEPT !.pc = "returned",
                              !.result = Result(FALSE, "Current password is incorrect")]
  /\ UNCHANGED <<backendPassword, passwordError, passwordSuccess, passwordLoading, hideTimer>>

\* supabase.auth.updateUser({password: newPassword})
UpdateUser(refused) ==
  /\ account.pc = "updateUser"
  /\ IF refused
       THEN /\ account' = [account EXCEPT !.pc = "returned",
                                          !.result = Result(FALSE, "Password update refused")]
            /\ UNCHANGED backendPassword
       ELSE /\ account' = [account EXCEPT !.pc = "returned", !.result = Result(TRUE, "")]
            /\ backendPassword' = account.argNewPassword
  /\ UNCHANGED <<passwordError, passwordSuccess, passwordLoading, hideTimer>>

\* the await of updateUserPassword is over; the handler does not look at what
\* it resolved to: setPasswordSuccess, the fields are emptied, the timer that
\* hides the form is set, and finally setPasswordLoading(false)
PasswordChangeReturns ==
  /\ account.pc = "returned"
  /\ passwordSuccess' = "Password updated successfully!"
  /\ account' = [account EXCEPT !.pc = "form", !.currentPassword = "",
                                !.newPassword = "", !.confirmPassword = ""]
  /\ hideTimer' = TRUE
  /\ passwordLoading' = FALSE
  /\ UNCHANGED <<backendPassword, passwordError>>

\* setTimeout(() => { setShowPasswordForm(false); setPasswordSuccess("") }, 2000)
HideForm ==
  /\ hideTimer
  /\ hideTimer' = FALSE
  /\ passwordSuccess' = ""
  /\ UNCHANGED <<account, backendPassword, passwordError, passwordLoading>>

AccountNext ==
  \/ \E p \in Passwords \cup {Email} : SignUp(p)
  \/ \E current \in Passwords \cup {Email}, new \in Passwords, confirm \in Passwords :
       HandlePasswordChange(current, new, confirm)
  \/ \E found \in BOOLEAN : HandlerGetUser(found)
  \/ \E outcome \in {"user", "none", "throws"} : StoreGetUser(outcome)
  \/ \E reachable \in BOOLEAN : SignInWithPassword(reachable)
  \/ \E refused \in BOOLEAN : UpdateUser(refused)
  \/ PasswordChangeReturns
  \/ HideForm

---------------------------------------------------------------------------
(***************************************************************************)
(* Search page state in session storage.        src/pages/Search.tsx 22-116 *)
(*                                                                         *)
(* An effect runs after the render its dependencies have changed in.  A    *)
(* new array is a changed dependency whatever it holds.                    *)
(***************************************************************************)
Queries == {"", "solo"}
ResultLists == {<<>>, <<"m1">>}
\* sessionStorage.getItem(SEARCH_STATE_KEY) === null
NoEntry == <<>>

\* the state the page saves: { query, results, filters, showFilters } (the
\* filters are not changed here)
SearchState(q, r, sf) == [query |-> q, results |-> r, showFilters |-> sf]
\* JSON.stringify(state), and JSON.parse of it
Stringify(state) ==
  <<"{query:", state.query, "results:", state.results, "showFilters:", state.showFilters, "}">>
Parse(text) == SearchState(text[2], text[4], text[6])

UnmountedPage ==
  [ mounted |-> FALSE, query |-> "", results |-> <<>>, showFilters |-> FALSE,
    hasSearched |-> FALSE, searching |-> FALSE, savePending |-> FALSE ]

SearchInit ==
  /\ page = UnmountedPage
  /\ sessionStorage = NoEntry
  /\ lastHandled = "none"

\* the page is mounted: the restore effect reads the saved state and sets it,
\* the save effect stores the state of the first render; the state that was
\* restored is rendered next
Mount ==
  LET restored == IF sessionStorage # NoEntry THEN Parse(sessionStorage)
                                               ELSE SearchState("", <<>>, FALSE)
  IN
  /\ ~page.mounted
  /\ sessionStorage' = Stringify(SearchState("", <<>>, FALSE))
  /\ page' = [UnmountedPage EXCEPT
                !.mounted = TRUE, !.query = restored.query, !.results = restored.results,
                !.showFilters = restored.showFilters,
                !.hasSearched = (sessionStorage # NoEntry
                                  /\ (Len(restored.results) > 0 \/ restored.query # "")),
                !.savePending = (sessionStorage # NoEntry)]
  /\ lastHandled' = "mount"

\* the user leaves the page
Unmount ==
  /\ page.mounted
  /\ page' = UnmountedPage
  /\ lastHandled' = "unmount"
  /\ UNCHANGED sessionStorage

\* setQuery(e.target.value)
SetQuery(q) ==
  /\ page.mounted /\ q # page.query
  /\ page' = [page EXCEPT !.query = q, !.savePending = TRUE]
  /\ lastHandled' = "setQuery"
  /\ UNCHANGED sessionStorage

\* setShowFilters(!showFilters)
ToggleFilters ==
  /\ page.mounted
  /\ page' = [page EXCEPT !.showFilters = ~@, !.savePending = TRUE]
  /\ lastHandled' = "setShowFilters"
  /\ UNCHANGED sessionStorage

\* handleSearch(query): nothing for a blank query
HandleSearch ==
  /\ page.mounted /\ ~page.searching
  /\ page.query # ""
  /\ page' = [page EXCEPT !.hasSearched = TRUE, !.searching = TRUE]
  /\ lastHandled' = "handleSearch"
  /\ UNCHANGED sessionStorage

\* searchMangaDex has resolved: setResults(data)
SearchResolves(data) ==
  /\ page.mounted /\ page.searching
  /\ page' = [page EXCEPT !.results = data, !.searching = FALSE, !.savePending = TRUE]
  /\ UNCHANGED <<sessionStorage, lastHandled>>

\* clearSearch: setQuery(''), setResults([]), setHasSearched(false),
\* sessionStorage.removeItem(SEARCH_STATE_KEY)
ClearSearch ==
  /\ page.mounted
  /\ page' = [page EXCEPT !.query = "", !.results = <<>>, !.hasSearched = FALSE,
                          !.savePending = TRUE]
  /\ sessionStorage' = NoEntry
  /\ lastHandled' = "clearSearch"

\* the save effect after a render with changed query, results, filters or
\* showFilters: sessionStorage.setItem(SEARCH_STATE_KEY, JSON.stringify(state))
SaveState ==
  /\ page.mounted /\ page.savePending
  /\ sessionStorage' = Stringify(SearchState(page.query, page.results, page.showFilters))
  /\ page' = [page EXCEPT !.savePending = FALSE]
  /\ UNCHANGED lastHandled

SearchNext ==
  \/ Mount
  \/ Unmount
  \/ \E q \in Queries : SetQuery(q)
  \/ ToggleFilters
  \/ HandleSearch
  \/ \E data \in ResultLists : SearchResolves(data)
  \/ ClearSearch
  \/ SaveState

---------------------------------------------------------------------------
(***************************************************************************)
(* Catalog client: what its operations end with.   src/unnamed/part_001    *)
(***************************************************************************)
CatalogProcs == 1..NCatalogCalls
CatalogOps == {"searchMangaDex", "getMangaById", "getMangaFeed", "getLastChapterNumber"}
ListOps == {"searchMangaDex", "getMangaFeed"}

\* the value of the catch block: [] for the lists, null for the lookups
Fallback(op) == IF op \in ListOps THEN <<>> ELSE "null"

\* what fetch ends with: a rejection, or a response with a status
FetchOutcomes == {"network failure", "200", "404", "500"}
\* what response.json() ends with: a rejection, JSON without the fields the
\* operation reads, or the answer of the catalog (with or without items)
Bodies == {"unparseable", "malformed", "empty", "items"}

IdleCatalogCall ==
  [ pc |-> "idle", op |-> "none", cause |-> "none", outcome |-> "pending", value |-> "undefined" ]

CatalogInit == catalogCalls = [p \in CatalogProcs |-> IdleCatalogCall]

\* the call has ended: what is kept is the operation, what it met and what
\* the caller got
Returned(call, cause, value) ==
  [IdleCatalogCall EXCEPT !.pc = "done", !.op = call.op, !.cause = cause,
                          !.outcome = "returned", !.value = value]
Raised(call, cause) ==
  [IdleCatalogCall EXCEPT !.pc = "done", !.op = call.op, !.cause = cause,
                          !.outcome = "raised"]

\* the statements of an operation that can throw, and whether they stand
\* inside its try block
InTry_FetchOutside(op, site) == site # "fetch"
InTry(op, site) == site \in {"fetch", "status", "json", "read"}

\* an exception at a site: the catch block returns the fallback
Throw(call, site, cause) ==
  IF InTry(call.op, site) THEN Returned(call, cause, Fallback(call.op)) ELSE Raised(call, cause)

\* the operation is called; searchMangaDex returns [] for an empty query
\* without tags, before its try block
CatalogCall(p, op, query) ==
  /\ catalogCalls[p].pc \in {"idle", "done"}
  /\ \A q \in CatalogProcs : q < p => catalogCalls[q].pc \notin {"idle", "done"}
  /\ catalogCalls' = [catalogCalls EXCEPT ![p] =
       IF op = "searchMangaDex" /\ query = ""
         THEN Returned([IdleCatalogCall EXCEPT !.op = op], "empty query", <<>>)
         ELSE [IdleCatalogCall EXCEPT !.pc = "fetch", !.op = op]]

\* await rateLimitedFetch(...) and the test of response.ok
CatalogFetchSettles(p, out) ==
  LET call == catalogCalls[p] IN
  /\ call.pc = "fetch"
  /\ catalogCalls' = [catalogCalls EXCEPT ![p] =
       IF out = "network failure" THEN Throw(call, "fetch", "network failure")
       ELSE IF out = "200" THEN [call EXCEPT !.pc = "json"]
       ELSE IF call.op = "getLastChapterNumber" THEN Returned(call, "status " \o out, "null")
       ELSE IF call.op = "getMangaById" /\ out = "404" THEN Returned(call, "status " \o out, "null")
       ELSE Throw(call, "status", "status " \o out)]

\* await response.json() and the reading of the fields of the answer
CatalogJsonSettles(p, body) ==
  LET call == catalogCalls[p]
      items == IF body = "items" THEN <<"m1">> ELSE <<>>
  IN
  /\ call.pc = "json"
  /\ catalogCalls' = [catalogCalls EXCEPT ![p] =
       IF body = "unparseable" THEN Throw(call, "json", "parse failure")
       ELSE IF body = "malformed"
         THEN IF call.op = "getMangaFeed" THEN Returned(call, "malformed", "undefined")
              ELSE IF call.op = "getLastChapterNumber" THEN Returned(call, "malformed", "null")
              ELSE Throw(call, "read", "malformed")
       ELSE IF call.op \in ListOps THEN Returned(call, "answer", items)
       ELSE IF call.op = "getMangaById"
         THEN IF body = "items" THEN Returned(call, "answer", "m1")
                                ELSE Throw(call, "read", "malformed")
       ELSE Returned(call, "answer", IF body = "items" THEN "12" ELSE "null")]

CatalogNext ==
  \/ \E p \in CatalogProcs, op \in CatalogOps, query \in Queries : CatalogCall(p, op, query)
  \/ \E p \in CatalogProcs, out \in FetchOutcomes : CatalogFetchSettles(p, out)
  \/ \E p \in CatalogProcs, body \in Bodies : CatalogJsonSettles(p, body)

---------------------------------------------------------------------------
(***************************************************************************)
(* Notification settings in local storage.                                 *)
(*                                     src/services/notifications.ts 1-29  *)
(***************************************************************************)
\* interface NotificationSettings
SettingsFields ==
  <<"enabled", "dailyReminder", "reminderTime", "streakReminders", "goalMilestones",
    "continueReadingSuggestions">>
ReminderTimes == {"19:00", "07:30"}
AllSettings ==
  [ enabled : BOOLEAN, dailyReminder : BOOLEAN, reminderTime : ReminderTimes,
    streakReminders : BOOLEAN, goalMilestones : BOOLEAN,
    continueReadingSuggestions : BOOLEAN ]

DEFAULT_SETTINGS ==
  [ enabled |-> FALSE, dailyReminder |-> TRUE, reminderTime |-> "19:00",
    streakReminders |-> TRUE, goalMilestones |-> TRUE,
    continueReadingSuggestions |-> TRUE ]

\* localStorage.getItem(NOTIFICATION_SETTINGS_KEY) === null
NoItem == <<>>
\* no settings object (history)
NoSettings == [none |-> TRUE]

\* JSON text (its tokens) of a member: the string in quotes for the
\* reminder time, true or false for the others
JsonValue(field, v) ==
  IF field = "reminderTime" THEN <<"\"", v, "\"">>
  ELSE IF v THEN <<"true">> ELSE <<"false">>
\* the value a JSON text stands for
ValueOfJson(text) == IF Len(text) = 1 THEN text[1] = "true" ELSE text[2]

\* JSON.stringify(settings): the members in the order of the object's keys
JsonStringify(settings) ==
  [i \in 1..Len(SettingsFields) |-> <<SettingsFields[i], JsonValue(SettingsFields[i], settings[SettingsFields[i]])>>]
\* JSON.parse(stored)
JsonParse(text) ==
  [f \in { text[i][1] : i \in 1..Len(text) } |->
     ValueOfJson(text[CHOOSE i \in 1..Len(text) : text[i][1] = f][2])]

NotifInit ==
  /\ localStorage = NoItem
  /\ lastSaved = NoSettings
  /\ lastGot = NoSettings

\* saveNotificationSettings(settings)
SaveNotificationSettings(settings) ==
  /\ localStorage' = JsonStringify(settings)
  /\ lastSaved' = settings
  /\ lastGot' = NoSettings

\* getNotificationSettings(): stored ? JSON.parse(stored) : DEFAULT_SETTINGS
GetNotificationSettings_Default ==
  /\ lastGot' = DEFAULT_SETTINGS
  /\ UNCHANGED <<localStorage, lastSaved>>
GetNotificationSettings ==
  /\ lastGot' = IF localStorage # NoItem THEN JsonParse(localStorage) ELSE DEFAULT_SETTINGS
  /\ UNCHANGED <<localStorage, lastSaved>>

\* the user clears the site's data
ClearSiteData ==
  /\ localStorage' = NoItem
  /\ lastSaved' = NoSettings
  /\ lastGot' = NoSettings

NotifNext ==
  \/ \E settings \in AllSettings : SaveNotificationSettings(settings)
  \/ GetNotificationSettings
  \/ ClearSiteData
---------------------------------------------------------------------------
(***************************************************************************)
(* Details page.                                   src/unnamed/part_004    *)
(*                                                                         *)
(* One Details component, opened on a catalog title of the signed-in user, *)
(* acting on the tables manhwa and reading_progress.  The page's calls of  *)
(* updateProgress and removeFromLibrary are requests the backend applies   *)
(* some time after they were sent.  utils/debounce is not part of the      *)
(* sources: debounce(f, ms) is the trailing debounce the specification     *)
(* describes (a fixed delay after the last call, restarted by every call). *)
(***************************************************************************)
\* debounce(..., 2000)
AUTO_SAVE_DELAY == 2000
\* setTimeout(() => setInitialLoadDone(true), 500)
INITIAL_LOAD_DELAY == 500
\* the clock is read every half second
DetailsTick == INITIAL_LOAD_DELAY
DetailsEnd == MaxDetailsTicks * DetailsTick

\* the values the form's fields are set to
FormStatuses == {PLAN_TO_READ, COMPLETED}
FormChapters == {0, 1}
FormRatings == {0, 8}
FormNotes == {"", "<b>good</b> "}
\* the number of chapters the catalog knows of the title
TotalChapters == 1

\* useState(ReadingStatus.PLAN_TO_READ), useState(0), useState(0), useState('')
DefaultForm == [status |-> PLAN_TO_READ, chapter |-> 0, rating |-> 0, notes |-> ""]

\* sanitizeInput(input): the markup is stripped, the text kept and trimmed
SanitizeInput(input) ==
  IF input = "" THEN ""
  ELSE IF input = "<b>good</b> " THEN "good"
  ELSE input

\* the debounce timer is not pending
NoAutoSave ==
  [due |-> NoTimer, id |-> NoId, form |-> DefaultForm, loadDone |-> FALSE, restarted |-> FALSE]
\* no auto-save write was sent yet
NoWrite ==
  [at |-> NoTimer, edit |-> NoTimer, inLibrary |-> FALSE, loadDone |-> FALSE, restarted |-> FALSE]
\* handleDelete is not running
NoRemoval == [pc |-> "none", id |-> NoId]

\* the page is opened on the catalog's id of a title (route = NoId: the id is
\* no entry's id); nothing is loaded yet
DetailsInit ==
  /\ detailsNow = 0
  /\ details = [ mounted |-> TRUE, route |-> NoId, pc |-> "loading",
                 hasItem |-> FALSE, itemId |-> NoId, isInLibrary |-> FALSE,
                 initialLoadDone |-> FALSE, totalChapters |-> NoId,
                 form |-> DefaultForm ]
  /\ loadTimer = NoTimer
  /\ autoSaveTimer = NoAutoSave
  /\ saveRequests = {}
  /\ removal = NoRemoval
  /\ lastEdit = NoTimer
  /\ lastWrite = NoWrite
  /\ lateWrites = {}

\* debounce: a call clears the pending timer and sets one that calls the
\* function with the arguments of this call (restarted, as history: the call
\* has put off a timer that was pending)
Debounce(id, form, loadDone) ==
  [due |-> detailsNow + AUTO_SAVE_DELAY, id |-> id, form |-> form, loadDone |-> loadDone,
   restarted |-> (autoSaveTimer.due # NoTimer /\ autoSaveTimer.due < detailsNow + AUTO_SAVE_DELAY)]

\* if (id && initialLoadDone && isInLibrary && item)
AutoSaveGuard_LoadDoneOnly(d) == d.initialLoadDone /\ d.hasItem
AutoSaveGuard(d) == d.initialLoadDone /\ d.isInLibrary /\ d.hasItem

\* the auto-save effect, run after a render that changed one of its
\* dependencies: debouncedAutoSave(item.id, status, chapter, rating, notes)
\* (debouncedAutoSave is the function built for this value of initialLoadDone)
AutoSaveEffect(d) ==
  autoSaveTimer' = IF d.mounted /\ AutoSaveGuard(d)
                     THEN Debounce(d.itemId, d.form, d.initialLoadDone)
                     ELSE autoSaveTimer

\* the effect on [status, totalChapters, initialLoadDone]: a title set to
\* Completed is moved to its last chapter
CompletedEffect(d) ==
  IF /\ d.initialLoadDone
     /\ d.form.status = COMPLETED
     /\ d.totalChapters # NoId
     /\ d.form.chapter < d.totalChapters
    THEN [d EXCEPT !.form.chapter = d.totalChapters]
    ELSE d

\* the page renders as d: the effects run
Renders(d) ==
  /\ details' = CompletedEffect(d)
  /\ AutoSaveEffect(CompletedEffect(d))

\* what the page leaves of the tables and of the store's calls
DetailsStoreUnchanged == UNCHANGED <<calls, finished, lastUpsert, returned>>

\* loadManhwa: getManhwaDetails(id); the entry with its progress record, or
\* (the id being the catalog's) the preview of a title not in the library
LoadManhwa ==
  LET d == details
      found == d.route # NoId /\ OwnedEntry(TheUser, d.route)
      rows == SelectProgress(d.route)
      p == CHOOSE r \in rows : TRUE
      loaded == [d EXCEPT !.pc = "chapters", !.hasItem = TRUE, !.itemId = d.route,
                          !.isInLibrary = TRUE, !.totalChapters = TotalChapters]
  IN
  /\ d.mounted /\ d.pc = "loading"
  /\ IF found
       THEN IF rows # {}
              THEN Renders([loaded EXCEPT !.form = [status |-> p.status, chapter |-> p.last_chapter,
                                                    rating |-> p.rating, notes |-> p.notes]])
              ELSE Renders(loaded)
       ELSE Renders([d EXCEPT !.pc = "chapters", !.hasItem = TRUE, !.itemId = NoId,
                              !.isInLibrary = FALSE, !.totalChapters = TotalChapters])
  /\ UNCHANGED <<detailsNow, loadTimer, saveRequests, removal, lastEdit, lastWrite, lateWrites>>
  /\ UNCHANGED <<manhwa, progress, nextId, nextPid, faults, removing>>
  /\ DetailsStoreUnchanged

\* setLoading(false); setTimeout(() => setInitialLoadDone(true), 500)
LoadEnds ==
  /\ details.mounted /\ details.pc = "chapters"
  /\ details' = [details EXCEPT !.pc = "ready"]
  /\ loadTimer' = detailsNow + INITIAL_LOAD_DELAY
  /\ UNCHANGED <<detailsNow, autoSaveTimer, saveRequests, removal, lastEdit, lastWrite, lateWrites>>
  /\ UNCHANGED <<manhwa, progress, nextId, nextPid, faults, removing>>
  /\ DetailsStoreUnchanged

\* the timer runs setInitialLoadDone(true)
InitialLoadDone ==
  /\ loadTimer # NoTimer /\ detailsNow >= loadTimer
  /\ loadTimer' = NoTimer
  /\ IF details.mounted
       THEN Renders([details EXCEPT !.initialLoadDone = TRUE])
       ELSE UNCHANGED <<details, autoSaveTimer>>
  /\ UNCHANGED <<detailsNow, saveRequests, removal, lastEdit, lastWrite, lateWrites>>
  /\ UNCHANGED <<manhwa, progress, nextId, nextPid, faults, removing>>
  /\ DetailsStoreUnchanged

\* an edit of the form (shown once the page has loaded an item of the
\* library): setStatus, setChapter, setRating or setNotes with a new value
Edit(form) ==
  /\ details.mounted /\ details.pc = "ready" /\ details.isInLibrary
  /\ form # details.form
  /\ Cardinality({ f \in DOMAIN form : form[f] # details.form[f] }) = 1
  /\ Renders([details EXCEPT !.form = form])
  /\ lastEdit' = detailsNow
  /\ UNCHANGED <<detailsNow, loadTimer, saveRequests, removal, lastWrite, lateWrites>>
  /\ UNCHANGED <<manhwa, progress, nextId, nextPid, faults, removing>>
  /\ DetailsStoreUnchanged

\* the debounce timer runs the function: if (!initialLoadDone) return;
\* await updateProgress(id, {status, last_chapter, rating, notes: sanitizedNotes})
AutoSaveFires ==
  LET t == autoSaveTimer
      upd == [status |-> t.form.status, last_chapter |-> t.form.chapter,
              rating |-> t.form.rating, notes |-> SanitizeInput(t.form.notes)]
  IN
  /\ t.due # NoTimer /\ detailsNow >= t.due
  /\ autoSaveTimer' = NoAutoSave
  /\ IF t.loadDone
       THEN /\ saveRequests' = saveRequests \cup {UpsertRow(t.id, upd)}
            /\ lastWrite' = [at |-> detailsNow, edit |-> lastEdit,
                             inLibrary |-> details.isInLibrary,
                             loadDone |-> details.initialLoadDone,
                             restarted |-> t.restarted]
       ELSE UNCHANGED <<saveRequests, lastWrite>>
  /\ UNCHANGED <<detailsNow, details, loadTimer, removal, lastEdit, lateWrites>>
  /\ UNCHANGED <<manhwa, progress, nextId, nextPid, faults, removing>>
  /\ DetailsStoreUnchanged

\* the backend applies the upsert of an updateProgress call (it refuses a row
\* of an entry that does not exist: updateProgress returns null)
SaveApplied(row) ==
  /\ row \in saveRequests
  /\ saveRequests' = saveRequests \ {row}
  /\ IF OwnedEntry(TheUser, row.manhwa_id)
       THEN /\ progress' = UpsertProgress(row, nextPid)
            /\ nextPid' = IF SelectProgress(row.manhwa_id) = {} THEN nextPid + 1 ELSE nextPid
            /\ lateWrites' = IF row.manhwa_id \in removing
                               THEN lateWrites \cup {row.manhwa_id}
                               ELSE lateWrites
       ELSE UNCHANGED <<progress, nextPid, lateWrites>>
  /\ UNCHANGED <<detailsNow, details, loadTimer, autoSaveTimer, removal, lastEdit, lastWrite>>
  /\ UNCHANGED <<manhwa, nextId, faults, removing>>
  /\ DetailsStoreUnchanged

\* handleAddToLibrary: await addToLibrary(...) (no other call of the user
\* overlaps it); setIsInLibrary(true); navigate(`/manhwa/${dbId}`)
HandleAddToLibrary ==
  LET existing == MaybeSingle(SelectManhwa(TheUser, "s1"))
      dbId == IF existing # NoId THEN existing ELSE nextId
  IN
  /\ details.mounted /\ details.pc = "ready" /\ details.hasItem /\ ~details.isInLibrary
  /\ nextId \in Ids
  /\ IF existing # NoId
       THEN UNCHANGED <<manhwa, nextId>>
       ELSE /\ manhwa' = manhwa \cup {[id |-> nextId, user_id |-> TheUser, source_id |-> "s1"]}
            /\ nextId' = nextId + 1
  /\ IF SelectProgress(dbId) = {}
       THEN /\ progress' = progress \cup {WithId(InitialProgress(dbId, PLAN_TO_READ), nextPid)}
            /\ nextPid' = nextPid + 1
       ELSE UNCHANGED <<progress, nextPid>>
  /\ Renders([details EXCEPT !.isInLibrary = TRUE, !.route = dbId, !.pc = "loading"])
  /\ UNCHANGED <<detailsNow, loadTimer, saveRequests, removal, lastEdit, lastWrite, lateWrites>>
  /\ UNCHANGED <<faults, removing>>
  /\ DetailsStoreUnchanged

\* handleDelete: if (!item || !isInLibrary) return; removeFromLibrary(item.id)
\* is called
HandleDelete ==
  /\ details.mounted /\ details.hasItem /\ details.isInLibrary
  /\ details.pc = "ready"
  /\ removal.pc \in {"none", "threw"}
  /\ removal' = [pc |-> "rm_progress", id |-> details.itemId]
  /\ removing' = IF details.itemId # NoId THEN removing \cup {details.itemId} ELSE removing
  /\ UNCHANGED <<detailsNow, details, loadTimer, autoSaveTimer, saveRequests, lastEdit,
                 lastWrite, lateWrites>>
  /\ UNCHANGED <<manhwa, progress, nextId, nextPid, faults>>
  /\ DetailsStoreUnchanged

\* removeFromLibrary: the progress record is deleted (an error is logged and
\* the call goes on)
DeleteProgressApplied(fail) ==
  /\ removal.pc = "rm_progress"
  /\ fail => CanFail
  /\ faults' = IF fail THEN faults + 1 ELSE faults
  /\ progress' = IF fail THEN progress ELSE DeleteProgress(removal.id)
  /\ removal' = [removal EXCEPT !.pc = "rm_manhwa"]
  /\ UNCHANGED <<detailsNow, details, loadTimer, autoSaveTimer, saveRequests, lastEdit,
                 lastWrite, lateWrites>>
  /\ UNCHANGED <<manhwa, nextId, nextPid, removing>>
  /\ DetailsStoreUnchanged

\* removeFromLibrary: the entry is deleted, or the call throws; after the
\* await: setShowRemoveModal(false); navigate('/library')
DeleteManhwaApplied(fail) ==
  /\ removal.pc = "rm_manhwa"
  /\ fail => CanFail
  /\ faults' = IF fail THEN faults + 1 ELSE faults
  /\ IF fail
       THEN /\ removal' = [removal EXCEPT !.pc = "threw"]
            /\ UNCHANGED <<manhwa, progress, details>>
       ELSE /\ manhwa' = { m \in manhwa : m.id # removal.id }
            /\ progress' = ProgressAfterDeleteManhwa(removal.id)
            /\ removal' = [removal EXCEPT !.pc = "done"]
            /\ details' = [details EXCEPT !.mounted = FALSE]
  /\ UNCHANGED <<detailsNow, loadTimer, autoSaveTimer, saveRequests, lastEdit, lastWrite,
                 lateWrites>>
  /\ UNCHANGED <<nextId, nextPid, removing>>
  /\ DetailsStoreUnchanged

\* the user leaves the page: the component unmounts (no effect of the page
\* has a cleanup, so its timers stay)
LeavePage ==
  /\ details.mounted
  /\ details' = [details EXCEPT !.mounted = FALSE]
  /\ UNCHANGED <<detailsNow, loadTimer, autoSaveTimer, saveRequests, removal, lastEdit,
                 lastWrite, lateWrites>>
  /\ UNCHANGED <<manhwa, progress, nextId, nextPid, faults, removing>>
  /\ DetailsStoreUnchanged

\* time passes (a timer that is due runs before the clock is read again)
DetailsClock ==
  /\ detailsNow < DetailsEnd
  /\ loadTimer = NoTimer \/ detailsNow < loadTimer
  /\ autoSaveTimer.due = NoTimer \/ detailsNow < autoSaveTimer.due
  /\ detailsNow' = detailsNow + DetailsTick
  /\ UNCHANGED <<details, loadTimer, autoSaveTimer, saveRequests, removal, lastEdit,
                 lastWrite, lateWrites>>
  /\ UNCHANGED <<manhwa, progress, nextId, nextPid, faults, removing>>
  /\ DetailsStoreUnchanged

DetailsNext ==
  \/ LoadManhwa
  \/ LoadEnds
  \/ InitialLoadDone
  \/ \E st \in FormStatuses, ch \in FormChapters, ra \in FormRatings, no \in FormNotes :
        Edit([status |-> st, chapter |-> ch, rating |-> ra, notes |-> no])
  \/ AutoSaveFires
  \/ \E row \in saveRequests : SaveApplied(row)
  \/ HandleAddToLibrary
  \/ HandleDelete
  \/ \E fail \in BOOLEAN : DeleteProgressApplied(fail)
  \/ \E fail \in BOOLEAN : DeleteManhwaApplied(fail)
  \/ LeavePage
  \/ DetailsClock

---------------------------------------------------------------------------
(***************************************************************************)
(* Goal progress.                             services/store.ts 648-676    *)
(*                                                                         *)
(* calculateGoalProgress applied to the library getLibrary returns.        *)
(* Dates are day numbers.                                                  *)
(***************************************************************************)
\* type TargetType = 'manhwa_count' | 'chapter_count' | 'completed_count'
TargetTypes == {"manhwa_count", "chapter_count", "completed_count"}

GoalDays == {1, 5}
\* the goals: a target type and a date range
Goals ==
  { [target_type |-> t, start_date |-> s, end_date |-> s + 3] : t \in TargetTypes, s \in {0, 4} }

\* an entry has no progress record (progress: undefined)
NoProgress == [status |-> UndefStr, last_chapter |-> 0, updated_at |-> 0]
\* the items of a library: when the entry was created, and its progress record
LibraryItems ==
  { [created_at |-> c, progress |-> p] :
      c \in GoalDays,
      p \in {NoProgress} \cup
            { [status |-> st, last_chapter |-> ch, updated_at |-> u] :
                st \in {READING, COMPLETED}, ch \in {3}, u \in GoalDays } }
Libraries == UNION { [1..n -> LibraryItems] : n \in 0..MaxItems }

\* date >= startDate && date <= endDate
InPeriod(date, goal) == date >= goal.start_date /\ date <= goal.end_date

\* library.filter(item => createdAt >= startDate && createdAt <= endDate).length
RECURSIVE CountAdded(_, _)
CountAdded(library, goal) ==
  IF library = <<>> THEN 0
  ELSE (IF InPeriod(Head(library).created_at, goal) THEN 1 ELSE 0)
       + CountAdded(Tail(library), goal)

\* library.reduce((sum, item) => ... sum + item.progress.last_chapter ..., 0)
RECURSIVE SumChapters(_, _)
SumChapters(library, goal) ==
  IF library = <<>> THEN 0
  ELSE (IF Head(library).progress # NoProgress /\ InPeriod(Head(library).progress.updated_at, goal)
          THEN Head(library).progress.last_chapter
          ELSE 0)
       + SumChapters(Tail(library), goal)

\* if (goal.target_type === 'manhwa_count') {...} else {...}
CalculateGoalProgress(goal, library) ==
  IF goal.target_type = "manhwa_count"
    THEN CountAdded(library, goal)
    ELSE SumChapters(library, goal)

\* nothing was calculated yet
NoGoalRun == [goal |-> [target_type |-> "none", start_date |-> 0, end_date |-> 0],
              library |-> <<>>, value |-> 0]

GoalsInit == goalRun = NoGoalRun

\* loadData of the goals page: const progress = await calculateGoalProgress(goal)
LoadGoalProgress(goal, library) ==
  goalRun' = [goal |-> goal, library |-> library, value |-> CalculateGoalProgress(goal, library)]

GoalsNext ==
  \E goal \in Goals, library \in Libraries : LoadGoalProgress(goal, library)

---------------------------------------------------------------------------
(***************************************************************************)
(* Search page: the titles marked as added.        pages/Search.tsx 29-148 *)
(*                                                                         *)
(* A search result carries the catalog's id of its title (id and source_id *)
(* are both item.id of the catalog, unnamed/part_001 123-126); an entry of *)
(* the library carries the id the backend gave it (store.ts 83).  The user *)
(* has one title in the library when the page is opened.                   *)
(***************************************************************************)
\* the catalog ids of the titles shown as results
ResultIds == {"s1", "s2", "s3"}
\* the id the backend gives to the entry of a title
EntryIdOf == [s \in ResultIds |-> IF s = "s1" THEN "e1" ELSE IF s = "s2" THEN "e2" ELSE "e3"]

\* getLibrary() has not been answered yet
NoLibrary == {"pending"}

MarksInit ==
  /\ libraryEntries = {"s1"}
  /\ libraryIds = {}
  /\ libraryLoad = NoLibrary
  /\ libraryLoaded = FALSE
  /\ adding = {}

\* lib.map(i => i.id)
LibraryItemIds(entries) == { EntryIdOf[s] : s \in entries }

\* const isAdded = libraryIds.has(manga.id)
IsAdded(s) == s \in libraryIds

\* getLibrary() is answered with the entries of that moment
GetLibraryAnswered ==
  /\ ~libraryLoaded /\ libraryLoad = NoLibrary
  /\ libraryLoad' = LibraryItemIds(libraryEntries)
  /\ UNCHANGED <<libraryEntries, libraryIds, libraryLoaded, adding>>

\* .then(lib => setLibraryIds(new Set(lib.map(i => i.id))))
SetLibraryIds ==
  /\ ~libraryLoaded /\ libraryLoad # NoLibrary
  /\ libraryIds' = libraryLoad
  /\ libraryLoaded' = TRUE
  /\ UNCHANGED <<libraryEntries, libraryLoad, adding>>

\* handleAdd / handleStartReading of a result that is not marked:
\* setLibraryIds(prev => new Set(prev).add(manhwa.id)); addToLibrary is called
HandleAdd(s) ==
  /\ ~IsAdded(s)
  /\ s \notin adding
  /\ libraryIds' = libraryIds \cup {s}
  /\ adding' = adding \cup {s}
  /\ UNCHANGED <<libraryEntries, libraryLoad, libraryLoaded>>

\* addToLibrary resolves (the title is in the library), or throws and the
\* catch takes the id out of the set again
AddSettles(s, threw) ==
  /\ s \in adding
  /\ adding' = adding \ {s}
  /\ IF threw
       THEN /\ libraryIds' = libraryIds \ {s}
            /\ UNCHANGED libraryEntries
       ELSE /\ libraryEntries' = libraryEntries \cup {s}
            /\ UNCHANGED libraryIds
  /\ UNCHANGED <<libraryLoad, libraryLoaded>>

MarksNext ==
  \/ GetLibraryAnswered
  \/ SetLibraryIds
  \/ \E s \in ResultIds : HandleAdd(s)
  \/ \E s \in ResultIds, threw \in BOOLEAN : AddSettles(s, threw)

---------------------------------------------------------------------------
(***************************************************************************)
(* Library page: selection mode and bulk operations.                       *)
(*                      unnamed/part_005 13-100, unnamed/part_014 14-119   *)
(*                                                                         *)
(* The page is modelled once its library has loaded.  Of the filters the   *)
(* status and the lowest rating are modelled (ratingMax stays 10 and the   *)
(* date filter 'all'); the sort order does not change the set of displayed *)
(* ids.  A bulk operation is one step: its requests all succeed and the    *)
(* library is read again before the selection is cleared.                  *)
(***************************************************************************)
\* the ids of the entries of the library
ItemIds == {"e1", "e2", "e3"}
\* filters.status: 'ALL' or a reading status
FilterStatuses == {"ALL", READING, COMPLETED}
\* filters.ratingMin
RatingMins == {0, 5}
\* the status chosen in the bulk status dialog
BulkStatuses == {READING, COMPLETED}

\* no bulk operation has run yet
NoBulk == [kind |-> "none", affected |-> {}, displayed |-> {}]

LibraryPageInit ==
  /\ libraryItems = { [id |-> "e1", status |-> READING, rating |-> 8],
                      [id |-> "e2", status |-> COMPLETED, rating |-> 0],
                      [id |-> "e3", status |-> READING, rating |-> 0] }
  /\ filters = [status |-> "ALL", ratingMin |-> 0]
  \* useState(false), useState(new Set())
  /\ selectionMode = FALSE
  /\ selectedIds = {}
  /\ lastBulk = NoBulk

\* useLibrary: filteredItems, as the set of the ids of the items that pass
\* the filters
FilteredIds(its, f) ==
  { i.id : i \in { j \in its : /\ (f.status = "ALL" \/ j.status = f.status)
                               /\ j.rating >= f.ratingMin } }

\* the ids of the items the page displays
DisplayedIds == FilteredIds(libraryItems, filters)

\* {filteredItems.length > 0 && <BatchOperationsBar ... />}
BarShown == DisplayedIds # {}

\* toggleSelectionMode
ToggleSelectionMode ==
  /\ BarShown
  /\ selectionMode' = ~selectionMode
  /\ selectedIds' = {}
  /\ UNCHANGED <<libraryItems, filters, lastBulk>>

\* toggleSelect(id), from a click on a displayed item in selection mode
ToggleSelect(id) ==
  /\ selectionMode
  /\ id \in DisplayedIds
  /\ selectedIds' = IF id \in selectedIds THEN selectedIds \ {id} ELSE selectedIds \cup {id}
  /\ UNCHANGED <<libraryItems, filters, selectionMode, lastBulk>>

\* selectAll; the button is disabled when selectedCount === totalCount
SelectAll ==
  /\ BarShown /\ selectionMode
  /\ Cardinality(selectedIds) # Cardinality(DisplayedIds)
  /\ selectedIds' = DisplayedIds
  /\ UNCHANGED <<libraryItems, filters, selectionMode, lastBulk>>

\* deselectAll; the button is disabled when selectedCount === 0
DeselectAll ==
  /\ BarShown /\ selectionMode
  /\ selectedIds # {}
  /\ selectedIds' = {}
  /\ UNCHANGED <<libraryItems, filters, selectionMode, lastBulk>>

\* updateFilters(newFilters): setFilters(prev => ({ ...prev, ...newFilters }))
UpdateFilters(newFilters) ==
  /\ newFilters # filters
  /\ filters' = newFilters
  /\ UNCHANGED <<libraryItems, selectionMode, selectedIds, lastBulk>>

\* handleBulkDelete, confirmed: removeFromLibrary(id) for every selected id,
\* refreshLibrary(), the selection is cleared and selection mode is left
HandleBulkDelete ==
  /\ BarShown /\ selectionMode
  /\ selectedIds # {}
  /\ libraryItems' = { i \in libraryItems : i.id \notin selectedIds }
  /\ lastBulk' = [kind |-> "delete", affected |-> selectedIds, displayed |-> DisplayedIds]
  /\ selectedIds' = {}
  /\ selectionMode' = FALSE
  /\ UNCHANGED filters

\* handleBulkStatusChange: updateProgress(item.id, { status: bulkStatus, ... })
\* for every item whose id is selected, refreshLibrary(), the selection is
\* cleared and selection mode is left
HandleBulkStatusChange(bulkStatus) ==
  /\ BarShown /\ selectionMode
  /\ selectedIds # {}
  /\ libraryItems' = { IF i.id \in selectedIds THEN [i EXCEPT !.status = bulkStatus] ELSE i :
                         i \in libraryItems }
  /\ lastBulk' = [kind |-> "status", affected |-> selectedIds, displayed |-> DisplayedIds]
  /\ selectedIds' = {}
  /\ selectionMode' = FALSE
  /\ UNCHANGED filters

LibraryPageNext ==
  \/ ToggleSelectionMode
  \/ \E id \in ItemIds : ToggleSelect(id)
  \/ SelectAll
  \/ DeselectAll
  \/ \E s \in FilterStatuses, r \in RatingMins : UpdateFilters([status |-> s, ratingMin |-> r])
  \/ HandleBulkDelete
  \/ \E bulkStatus \in BulkStatuses : HandleBulkStatusChange(bulkStatus)


Init ==
  /\ StoreInit
  /\ WorkerInit
  /\ RateInit
  /\ AchInit
  /\ AuthInit
  /\ SessionInit
  /\ BoundaryInit
  /\ AccountInit
  /\ SearchInit
  /\ CatalogInit
  /\ NotifInit
  /\ DetailsInit
  /\ GoalsInit
  /\ MarksInit
  /\ LibraryPageInit

\* the persistence client alone
SpecStore ==
  Init /\ [][StoreNext /\ UNCHANGED <<workerVars, rateVars, achVars, authVars, sessionVars, boundaryVars,
                                  accountVars, searchVars, catalogVars, notifVars, detailsVars,
                                  goalsVars, marksVars, libraryPageVars>>]_vars

\* the offline cache worker alone, with no message posted to it (nothing in
\* the app posts one)
SpecWorker ==
  Init /\ [][WorkerNext /\ UNCHANGED <<storeVars, rateVars, achVars, authVars, sessionVars, boundaryVars,
                                   accountVars, searchVars, catalogVars, notifVars, detailsVars,
                                   goalsVars, marksVars, libraryPageVars>>]_vars

\* the offline cache worker alone, with CLEAR_CACHE messages posted to it and
\* one fetch event at a time
SpecLifecycle ==
  Init /\ [][LifecycleNext /\ UNCHANGED <<storeVars, rateVars, achVars, authVars, sessionVars, boundaryVars,
                                      accountVars, searchVars, catalogVars, notifVars, detailsVars,
                                      goalsVars, marksVars, libraryPageVars>>]_vars

\* the rate-limited fetch alone
SpecRate ==
  Init /\ [][RateNext /\ UNCHANGED <<storeVars, workerVars, achVars, authVars, sessionVars, boundaryVars,
                                 accountVars, searchVars, catalogVars, notifVars, detailsVars,
                                 goalsVars, marksVars, libraryPageVars>>]_vars

\* the achievements alone
SpecAch ==
  Init /\ [][AchNext /\ UNCHANGED <<storeVars, workerVars, rateVars, authVars, sessionVars, boundaryVars,
                                accountVars, searchVars, catalogVars, notifVars, detailsVars,
                                goalsVars, marksVars, libraryPageVars>>]_vars

\* the getUserId memo alone
SpecAuth ==
  Init /\ [][AuthNext /\ UNCHANGED <<storeVars, workerVars, rateVars, achVars, sessionVars, boundaryVars,
                                 accountVars, searchVars, catalogVars, notifVars, detailsVars,
                                 goalsVars, marksVars, libraryPageVars>>]_vars

\* the session idle monitor alone
SpecSession ==
  Init /\ [][SessionNext /\ UNCHANGED <<storeVars, workerVars, rateVars, achVars, authVars, boundaryVars,
                                    accountVars, searchVars, catalogVars, notifVars, detailsVars,
                                    goalsVars, marksVars, libraryPageVars>>]_vars

\* the error boundary alone
SpecBoundary ==
  Init /\ [][BoundaryNext /\ UNCHANGED <<storeVars, workerVars, rateVars, achVars, authVars, sessionVars,
                                     accountVars, searchVars, catalogVars, notifVars, detailsVars,
                                     goalsVars, marksVars, libraryPageVars>>]_vars

\* the password change of the account page alone
SpecAccount ==
  Init /\ [][AccountNext /\ UNCHANGED <<storeVars, workerVars, rateVars, achVars, authVars, sessionVars,
                                    boundaryVars, searchVars, catalogVars, notifVars, detailsVars,
                                    goalsVars, marksVars, libraryPageVars>>]_vars

\* the search page alone
SpecSearch ==
  Init /\ [][SearchNext /\ UNCHANGED <<storeVars, workerVars, rateVars, achVars, authVars, sessionVars,
                                   boundaryVars, accountVars, catalogVars, notifVars, detailsVars,
                                   goalsVars, marksVars, libraryPageVars>>]_vars

\* the operations of the catalog client alone
SpecCatalog ==
  Init /\ [][CatalogNext /\ UNCHANGED <<storeVars, workerVars, rateVars, achVars, authVars, sessionVars,
                                    boundaryVars, accountVars, searchVars, notifVars, detailsVars,
                                    goalsVars, marksVars, libraryPageVars>>]_vars

\* the notification settings alone
SpecNotif ==
  Init /\ [][NotifNext /\ UNCHANGED <<storeVars, workerVars, rateVars, achVars, authVars, sessionVars,
                                  boundaryVars, accountVars, searchVars, catalogVars, detailsVars,
                                  goalsVars, marksVars, libraryPageVars>>]_vars

\* the details page alone, acting on the tables of the persistence client
SpecDetails ==
  Init /\ [][DetailsNext /\ UNCHANGED <<workerVars, rateVars, achVars, authVars, sessionVars, boundaryVars,
                                    accountVars, searchVars, catalogVars, notifVars, goalsVars,
                                    marksVars, libraryPageVars>>]_vars

\* the goal progress calculation alone
SpecGoals ==
  Init /\ [][GoalsNext /\ UNCHANGED <<storeVars, workerVars, rateVars, achVars, authVars, sessionVars,
                                  boundaryVars, accountVars, searchVars, catalogVars, notifVars,
                                  detailsVars, marksVars, libraryPageVars>>]_vars

\* the added marks of the search page alone
SpecMarks ==
  Init /\ [][MarksNext /\ UNCHANGED <<storeVars, workerVars, rateVars, achVars, authVars, sessionVars,
                                  boundaryVars, accountVars, searchVars, catalogVars, notifVars,
                                  detailsVars, goalsVars, libraryPageVars>>]_vars

\* the selection mode of the library page alone
SpecLibraryPage ==
  Init /\ [][LibraryPageNext /\ UNCHANGED <<storeVars, workerVars, rateVars, achVars, authVars, sessionVars,
                                        boundaryVars, accountVars, searchVars, catalogVars, notifVars,
                                        detailsVars, goalsVars, marksVars>>]_vars

(***************************************************************************)
(* Properties of the persistence client (under SpecStore).                 *)
(***************************************************************************)
EntryIds == { m.id : m \in manhwa }

\* C1: a call of addToLibrary made after an earlier call for the same user and
\* source id has completed (the entry it returned being the one entry of that
\* user and source) inserts no entry and returns the id of that entry.
C1_SecondAddReturnsExisting ==
  \A c \in finished \cup { calls[p] : p \in Procs } :
    (c.op = "add" /\ c.sole # NoId) =>
       /\ ~c.inserted
       /\ c.outcome = "ok" => c.ret = c.sole

\* C2: once removeFromLibrary(id) has returned, the entry and its progress
\* record are gone, and no progress record references a missing entry.
C2_RemoveLeavesNoOrphan ==
  \A c \in finished :
    (c.op = "remove" /\ c.outcome = "ok") =>
       /\ c.id \notin EntryIds
       /\ SelectProgress(c.id) = {}
       /\ \A r \in progress : r.manhwa_id \in EntryIds

\* a removal of an entry that addToLibrary had returned has completed
C2_Witness ==
  \E c \in finished :
    c.op = "remove" /\ c.outcome = "ok" /\ c.id \in returned

\* C3: an entry that addToLibrary has returned and that no removal was asked
\* for has exactly one progress record; the record holds the values of the
\* last upsert of updateProgress (of addToLibrary's insert when there was none).
C3_OneProgressRowLatestValues ==
  \A e \in returned \ removing :
    LET rows == SelectProgress(e) IN
    /\ Cardinality(rows) = 1
    /\ \A r \in rows :
         IF lastUpsert[e].n > 0
           THEN Values(r) = lastUpsert[e].row
           ELSE \E st \in AddStatuses : Values(r) = InitialProgress(e, st)

\* two updateProgress calls on one entry were applied, the later one with
\* other values than the row addToLibrary inserted
C3_Witness ==
  \E e \in returned \ removing :
    /\ lastUpsert[e].n = 2
    /\ \E r \in progress : r.manhwa_id = e /\ r.last_chapter = 7


(***************************************************************************)
(* Properties of the offline cache worker (under SpecWorker).              *)
(***************************************************************************)
InFlight(t) == tasks[t].pc \notin {"idle", "done"}

\* C4: a request under /api/cover/ whose response is in the cover cache is
\* answered with the cached response while its refetch is still in flight;
\* the refetch overwrites the cache entry when it ends with status 200 and
\* leaves the caches as they were when it fails or ends with another status.
C4_CoverStep(t) ==
  (tasks[t].pc = "cover_net" /\ tasks'[t].pc = "done") =>
     /\ tasks[t].cached # NoResp => tasks'[t].resp = tasks[t].cached
     /\ \A c \in CacheNames, p \in Paths :
          Entry(caches', c, p) =
            IF c = COVER_CACHE /\ p = tasks[t].req.path /\ tasks'[t].net.status = 200
              THEN tasks'[t].net
              ELSE Entry(caches, c, p)
C4_StaleWhileRevalidate ==
  /\ [](\A t \in Tasks :
          (tasks[t].pc = "cover_net" /\ tasks[t].cached # NoResp) =>
             tasks[t].responded /\ tasks[t].resp = tasks[t].cached)
  /\ [][\A t \in Tasks : C4_CoverStep(t)]_vars

\* a cover request was answered with the cached version while its refetch
\* brought the other version into the cache
C4_Witness ==
  \E t \in Tasks :
    /\ tasks[t].pc = "done" /\ tasks[t].strat = "cover"
    /\ tasks[t].resp = Resp(200, "v1") /\ tasks[t].net = Resp(200, "v2")
    /\ Entry(caches, COVER_CACHE, <<"api", "cover", "a">>) = Resp(200, "v2")

\* C5: when the fetch of a request under /api/mangadex/ fails and no cache has
\* a response for the request, the worker answers 503 with the offline body.
C5_OfflineResponse ==
  [][\A t \in Tasks :
       ( /\ tasks[t].pc = "api" /\ IsApi(tasks[t].req)
         /\ tasks'[t].pc = "done" /\ tasks'[t].net = NetError
         /\ \A c \in CacheNames : CacheMatch(c, tasks[t].req) = NoResp )
       => tasks'[t].resp = OfflineResponse]_vars

C5_Witness ==
  \E t \in Tasks :
    /\ tasks[t].pc = "done" /\ tasks[t].strat = "api"
    /\ tasks[t].net = NetError /\ tasks[t].resp = OfflineResponse

\* C6: every request is handled by the strategy of the first rule it matches
\* (cover, catalog proxy, static asset, navigation; pass-through when none
\* does), and a handler writes to no cache but the partition of that strategy.
RuleMatches(i, r) ==
  CASE i = 1 -> StartsWith(r.path, <<"api", "cover">>)
    [] i = 2 -> StartsWith(r.path, <<"api", "mangadex">>)
    [] i = 3 -> r.dest \in {"script", "style", "font"} \/ StartsWith(r.path, <<"assets">>)
    [] i = 4 -> r.dest = "document" \/ r.html
StrategyOfRule == <<"cover", "api", "static", "html">>
FirstMatch(r) ==
  LET m == { i \in 1..4 : RuleMatches(i, r) }
  IN IF m = {} THEN "pass"
     ELSE StrategyOfRule[CHOOSE i \in m : \A j \in m : i <= j]
PartitionOf(strategy) ==
  CASE strategy = "cover" -> {COVER_CACHE}
    [] strategy = "api" -> {API_CACHE}
    [] strategy \in {"static", "html"} -> {STATIC_CACHE}
    [] OTHER -> {}
StepsOf(strategy) ==
  CASE strategy = "cover" -> {"cover", "cover_net"}
    [] strategy = "api" -> {"api", "api_put"}
    [] strategy = "static" -> {"static", "static_net"}
    [] OTHER -> {strategy}
C6_FirstMatchWins ==
  /\ [](\A t \in Tasks :
          InFlight(t) =>
             /\ tasks[t].strat = FirstMatch(tasks[t].req)
             /\ tasks[t].pc \in StepsOf(FirstMatch(tasks[t].req)))
  /\ [][\A c \in CacheNames :
          (/\ clearing' = clearing
           /\ \/ (c \in DOMAIN caches') # (c \in DOMAIN caches)
              \/ \E p \in Paths : Entry(caches', c, p) # Entry(caches, c, p)) =>
             \E t \in Tasks : /\ InFlight(t) /\ tasks'[t] # tasks[t]
                              /\ c \in PartitionOf(FirstMatch(tasks[t].req))]_vars

\* a request that matches the cover rule and the static-asset rule is in the
\* hands of the cover strategy
C6_Witness ==
  \E t \in Tasks :
    /\ tasks[t].pc = "cover_net"
    /\ RuleMatches(1, tasks[t].req) /\ RuleMatches(3, tasks[t].req)

\* C10: once a handler of a GET request under /api/mangadex/ has finished with
\* a 200 response, a later request for the URL whose fetch fails is answered
\* with that response (from the API cache), not with the offline response.
C10_WriteThrough ==
  \A t \in Tasks :
    ( /\ tasks[t].pc = "done" /\ tasks[t].strat = "api"
      /\ tasks[t].net = NetError /\ tasks[t].prior # NoResp )
    => tasks[t].resp = tasks[t].prior

\* C11: whenever the network fetch for a navigation request fails, the page
\* is answered with the app shell cached under /index.html, whatever the
\* path of the request (under SpecLifecycle).
C11_OfflineAppShell ==
  \A t \in Tasks :
    (tasks[t].pc = "done" /\ tasks[t].strat = "html" /\ tasks[t].net = NetError)
      => tasks[t].resp = Resp(200, "v1")

\* what C12 says as it stands: a static-asset request that misses the caches
\* is fetched and the response is stored in the static cache whenever its
\* status is any 2xx.
C12_StoresAny2xx ==
  [][\A t \in Tasks :
       ( /\ tasks[t].pc = "static_net" /\ tasks'[t].pc = "done"
         /\ tasks'[t].net.status \in 200..299 )
       => Entry(caches', STATIC_CACHE, tasks[t].req.path) = tasks'[t].net]_vars

\* C12 (amended): a request with destination script, style or font, or a
\* path under /assets/, that no earlier rule has taken is answered from the caches without a network fetch
\* when a cached response exists; otherwise it is fetched, the response is
\* stored in the static cache whenever its status is exactly 200 (and no
\* other cache entry changes), and the response is returned.
C12_StaticStep(t) ==
  LET r == tasks[t].req
      hits == { Entry(caches, c, r.path) : c \in AllCacheNames } \ {NoResp}
  IN
  /\ (tasks[t].pc \in {"idle", "done"} /\ tasks'[t].pc \notin {"idle", "done"}) =>
        LET q == tasks'[t].req IN
        (IsStatic(q) /\ ~IsCover(q) /\ ~IsApi(q)) => tasks'[t].pc = "static"
  /\ (tasks[t].pc = "static" /\ tasks'[t] # tasks[t]) =>
        /\ caches' = caches
        /\ IF hits # {}
             THEN /\ tasks'[t].pc = "done" /\ tasks'[t].net = NoResp
                  /\ tasks'[t].resp \in hits
             ELSE tasks'[t].pc = "static_net" /\ ~tasks'[t].responded
  /\ (tasks[t].pc = "static_net" /\ tasks'[t].pc = "done") =>
        /\ tasks'[t].resp = tasks'[t].net
        /\ \A c \in AllCacheNames, p \in Paths :
             Entry(caches', c, p) =
               IF c = STATIC_CACHE /\ p = r.path /\ tasks'[t].net.status = 200
                 THEN tasks'[t].net
                 ELSE Entry(caches, c, p)
C12_CacheFirst == [][\A t \in Tasks : C12_StaticStep(t)]_vars

\* a stylesheet request was answered 204 by the network and nothing was
\* stored for it, while the script fetched with status 200 before is cached
C12_Witness ==
  \E t \in Tasks :
    /\ tasks[t].pc = "done" /\ tasks[t].strat = "static"
    /\ tasks[t].net = Resp(204, "empty") /\ tasks[t].resp = Resp(204, "empty")
    /\ Entry(caches, STATIC_CACHE, <<"main.css">>) = NoResp
    /\ Entry(caches, STATIC_CACHE, <<"assets", "app.js">>) = Resp(200, "v1")

\* C13: on the message {type: 'CLEAR_CACHE'} the worker sets out to delete
\* every cache of the origin whose name has the app's prefix, each of them is
\* gone when its deletion completes, and {type: 'CACHE_CLEARED'} is posted
\* only after every one of the deletions has completed (under SpecLifecycle).
C13_ReplyAfterDeletions ==
  [][ /\ (clearing.pc # "deleting" /\ clearing'.pc = "deleting") =>
           \A n \in AllCacheNames :
              n \in clearing'.todo <=> (n \in DOMAIN caches /\ Head(n) = "dooftrack")
      /\ \A n \in clearing.todo :
           n \notin clearing'.todo => (clearing'.pc = "deleting" /\ n \notin DOMAIN caches')
      /\ (clearing.pc # "replied" /\ clearing'.pc = "replied") =>
           (clearing.pc = "deleting" /\ clearing.todo = {}) ]_vars

\* the reply has been posted and, no handler having opened a cache since,
\* the origin is left with the cache that is not the app's
C13_Witness ==
  /\ clearing.pc = "replied"
  /\ DOMAIN caches = {FOREIGN_CACHE}

\* what C14 says as it stands: when the worker activates, every cache whose
\* name is not one of the three current names is deleted.
C14_DeletesEveryOther ==
  [][(phase = "installed" /\ phase' = "active") =>
       \A n \in DOMAIN caches : n \notin CacheNames => n \notin DOMAIN caches']_vars

\* C14 (amended): when the worker activates, every cache whose name starts
\* with the app's prefix and is not one of the three current names is
\* deleted, and the three current partitions and the caches with other names
\* are left as they were.
C14_ActivateCleansOld ==
  [][(phase = "installed" /\ phase' = "active") =>
       \A n \in AllCacheNames :
          IF n \in DOMAIN caches /\ Head(n) = "dooftrack" /\ n \notin CacheNames
            THEN n \notin DOMAIN caches'
            ELSE /\ n \in DOMAIN caches' <=> n \in DOMAIN caches
                 /\ \A p \in Paths \cup {<<"api", "cover", "b">>, <<"api", "mangadex", "tag">>,
                                        <<"other.js">>} :
                      Entry(caches', n, p) = Entry(caches, n, p)]_vars

\* the worker is active: the static cache of the earlier version is gone,
\* the precache, the cover and the catalog response stored before and the
\* cache that is not the app's are still there
C14_Witness ==
  /\ phase = "active"
  /\ OLD_STATIC_CACHE \notin DOMAIN caches
  /\ Entry(caches, STATIC_CACHE, IndexHtml) = Resp(200, "v1")
  /\ Entry(caches, COVER_CACHE, <<"api", "cover", "b">>) = Resp(200, "v1")
  /\ Entry(caches, API_CACHE, <<"api", "mangadex", "tag">>) = Resp(200, "v1")
  /\ Entry(caches, FOREIGN_CACHE, <<"other.js">>) = Resp(200, "v1")


(***************************************************************************)
(* Properties of the session idle monitor (under SpecSession).             *)
(***************************************************************************)
\* C15: every activity event restarts the warning timer and the logout
\* timer, so a pending warning timer is due 25 minutes and a pending logout
\* timer 30 minutes after the last activity; the warning callback runs only
\* when 25 minutes, the timeout callback only when 30 minutes have passed
\* without activity; and since the last activity the warning callback has
\* run before the timeout callback.
C15_TimersFollowActivity ==
  /\ warningTimeoutId # NoTimer => warningTimeoutId = lastActivity + 25 * 60 * 1000
  /\ timeoutId # NoTimer => timeoutId = lastActivity + 30 * 60 * 1000
  /\ \A i \in 1..Len(fired) :
       /\ fired[i].callback = "onWarning" =>
            (i = 1 /\ fired[i].at - lastActivity >= 25 * 60 * 1000)
       /\ fired[i].callback = "onTimeout" =>
            /\ fired[i].at - lastActivity >= 30 * 60 * 1000
            /\ i = 2 /\ fired[1].callback = "onWarning"

\* after an activity at minute 5 the warning callback ran at minute 30 and the
\* timeout callback at minute 35
C15_Witness ==
  /\ lastActivity = 5 * 60 * 1000
  /\ fired = << [callback |-> "onWarning", at |-> 30 * 60 * 1000],
                [callback |-> "onTimeout", at |-> 35 * 60 * 1000] >>

(***************************************************************************)
(* Properties of the error boundary (under SpecBoundary).                  *)
(***************************************************************************)
\* C16: whenever the error boundary has captured a rendering exception of
\* its child tree (hasError is true), what its render() returns is the
\* recovery screen and not the child tree, until resetError is invoked.
C16_RecoveryWhileHasError ==
  (boundaryPc # "unmounted" /\ hasError) => rendered = "recovery"

(***************************************************************************)
(* Properties of the password change (under SpecAccount).                  *)
(***************************************************************************)
\* C17: when a password change has been rejected (updateUserPassword found
\* the current password wrong, or the backend refused the update), the
\* account page shows an error message and no success message.
C17_RejectionShowsError ==
  (account.pc = "form" /\ account.result # NoResult /\ ~account.result.success)
     => (passwordError # "" /\ passwordSuccess = "")

(***************************************************************************)
(* Properties of the search page (under SpecSearch).                       *)
(***************************************************************************)
\* C18: once clearSearch has been handled and the page has settled (no
\* effect is left to run, no search is in flight), session storage holds no
\* entry under the search-state key.
C18_ClearedStorage ==
  (page.mounted /\ lastHandled = "clearSearch" /\ ~page.savePending /\ ~page.searching)
     => sessionStorage = NoEntry

(***************************************************************************)
(* Properties of the catalog client's operations (under SpecCatalog).      *)
(***************************************************************************)
\* C19: no operation of the catalog client raises to its caller; a call that
\* met a response with a non-success status, a network failure or a body
\* that does not parse has returned the empty list, or null when the
\* operation looks up a single item.
C19_NeverRaises ==
  \A p \in CatalogProcs :
    LET call == catalogCalls[p] IN
    call.pc = "done" =>
      /\ call.outcome = "returned"
      /\ call.cause \in {"network failure", "parse failure", "status 404", "status 500"} =>
           call.value = IF call.op \in {"searchMangaDex", "getMangaFeed"} THEN <<>> ELSE "null"

\* a search that met status 500 has returned the empty list and a lookup
\* whose body did not parse has returned null
C19_Witness ==
  /\ catalogCalls[1] = Returned([IdleCatalogCall EXCEPT !.op = "searchMangaDex"], "status 500", <<>>)
  /\ catalogCalls[2] = Returned([IdleCatalogCall EXCEPT !.op = "getMangaById"], "parse failure", "null")

(***************************************************************************)
(* Properties of the notification settings (under SpecNotif).              *)
(***************************************************************************)
\* C20: getNotificationSettings() called after saveNotificationSettings(s)
\* returns an object that equals s in the six fields enabled,
\* dailyReminder, reminderTime, streakReminders, goalMilestones and
\* continueReadingSuggestions.
C20_SettingsRoundTrip ==
  (lastSaved # NoSettings /\ lastGot # NoSettings) =>
     /\ lastGot.enabled = lastSaved.enabled
     /\ lastGot.dailyReminder = lastSaved.dailyReminder
     /\ lastGot.reminderTime = lastSaved.reminderTime
     /\ lastGot.streakReminders = lastSaved.streakReminders
     /\ lastGot.goalMilestones = lastSaved.goalMilestones
     /\ lastGot.continueReadingSuggestions = lastSaved.continueReadingSuggestions

\* settings that differ from the defaults in every field were saved and read
C20_Witness ==
  /\ lastSaved = [ enabled |-> TRUE, dailyReminder |-> FALSE, reminderTime |-> "07:30",
                   streakReminders |-> FALSE, goalMilestones |-> FALSE,
                   continueReadingSuggestions |-> FALSE ]
  /\ lastGot = lastSaved
  /\ localStorage # NoItem

(***************************************************************************)
(* Properties of the rate-limited fetch (under SpecRate).                  *)
(***************************************************************************)
\* C7: any two requests a catalog client issues through its rate-limited
\* fetch, the ones started concurrently included, are issued at least the
\* client's minimum interval apart.
C7_MinimumIntervalApart ==
  \A client \in Clients :
    \A i, j \in DOMAIN issued[client] :
      i < j => issued[client][j] - issued[client][i] >= MIN_REQUEST_INTERVAL(client)

(***************************************************************************)
(* Properties of the achievements (under SpecAch).                         *)
(***************************************************************************)
\* C8: there is at most one achievement row per user and achievement type.
C8_OneRowPerUserAndType ==
  \A u \in {TheUser}, t \in AchievementTypes :
    Cardinality(SelectAchievements(u, t)) <= 1

(***************************************************************************)
(* Properties of the getUserId memo (under SpecAuth).                      *)
(***************************************************************************)
\* C9: the first getUserId call after an auth-state-change event starts a
\* lookup; otherwise a call made once a lookup has resolved to a user id
\* returns the memo without a lookup, and a call made while a lookup is in
\* flight joins it.
C9_MemoizedUntilInvalidated ==
  /\ lastCall.first => lastCall.kind = "lookup"
  /\ (~lastCall.first /\ lastCall.memoized) => lastCall.kind = "cached"
  /\ (~lastCall.first /\ ~lastCall.memoized /\ lastCall.inflight) => lastCall.kind = "joined"

(***************************************************************************)
(* Properties of overlapping calls of the persistence client (under        *)
(* SpecStore).                                                             *)
(***************************************************************************)
\* C21: once the addToLibrary calls of a user for a source id have finished
\* (no call is in flight, and no backend request has failed), the user has at
\* most one entry for that source id, however the calls overlapped.
C21_OverlappingAddsOneEntry ==
  (faults = 0 /\ \A p \in Procs : calls[p].pc \in {"idle", "done"}) =>
     \A s \in SourceIds : Cardinality(SelectManhwa(TheUser, s)) <= 1

(***************************************************************************)
(* Properties of the getUserId memo under a late lookup (under SpecAuth).  *)
(***************************************************************************)
\* C22: no getUserId call returns a memo that was written by a lookup whose
\* answer (the user id it resolved) is older than the last auth-state-change
\* event.
C22_NoStaleMemo ==
  lastCall.kind = "cached" => ~lastCall.stale

(***************************************************************************)
(* Properties of the details page (under SpecDetails).                     *)
(***************************************************************************)
\* C23: once handleDelete has asked for the removal of an entry, no auto-save
\* write creates or updates a progress record of that entry.
C23_NoWriteAfterRemoval ==
  lateWrites = {}

(***************************************************************************)
(* Properties of removeFromLibrary's two deletes (under SpecStore).        *)
(***************************************************************************)
\* C24: the first request of removeFromLibrary(id) is the delete of the
\* progress record and leaves the entries alone; the entry delete comes only
\* after it, and when it fails the call throws and the step leaves both
\* tables as they are: a progress record deleted before is not put back.
C24_TwoStepRemoval ==
  [][\A p \in Procs :
       /\ (calls[p].op = "none" /\ calls'[p].op = "remove") =>
            /\ calls'[p].pc = "rm_manhwa"
            /\ manhwa' = manhwa
            /\ progress' = IF faults' = faults THEN DeleteProgress(calls'[p].id) ELSE progress
       /\ (calls[p].pc = "rm_manhwa" /\ calls'[p].pc = "done" /\ faults' # faults) =>
            /\ manhwa' = manhwa
            /\ progress' = progress
            /\ \E f \in finished' :
                 f.op = "remove" /\ f.id = calls[p].id /\ f.outcome = "threw"
       /\ (calls[p].pc = "rm_manhwa" /\ calls'[p].pc = "done" /\ faults' = faults) =>
            /\ calls[p].id \notin { m.id : m \in manhwa' }
            /\ \E f \in finished' :
                 f.op = "remove" /\ f.id = calls[p].id /\ f.outcome = "ok"]_vars

\* a removal has thrown on its entry delete after its progress delete went
\* through: the entry addToLibrary had returned is left without a record
C24_Witness ==
  \E f \in finished :
    /\ f.op = "remove" /\ f.outcome = "threw"
    /\ f.id \in returned
    /\ f.id \in EntryIds
    /\ SelectProgress(f.id) = {}
    /\ \A p \in Procs : calls[p].op \in {"none", "done"}

C26_QuickStartIsReading ==
  [][\A p \in Procs :
       ( /\ calls[p].op = "add" /\ calls[p].status = READING
         /\ calls[p].sole # NoId
         /\ calls'[p].pc = "done"
         /\ \/ calls[p].pc = "add_progsel"
            \/ calls[p].pc = "add_proginsert" /\ progress' # progress ) =>
       /\ \E m \in manhwa' : m.id = calls[p].manhwaId /\ m.user_id = calls[p].userId
       /\ \E r \in progress' : r.manhwa_id = calls[p].manhwaId
       /\ \A r \in progress' : r.manhwa_id = calls[p].manhwaId => r.status = READING]_vars

(***************************************************************************)
(* Properties of a destroyed session idle monitor (under SpecSession).     *)
(***************************************************************************)
\* C27: once destroy() has run, no step invokes the warning callback or the
\* timeout callback, whatever is called on the monitor afterwards.
C27_NoCallbackAfterDestroy ==
  [][~tracking => Len(fired') <= Len(fired)]_vars

(***************************************************************************)
(* Properties of the goal progress (under SpecGoals).                      *)
(***************************************************************************)
\* the entries of the library whose status is Completed and whose record was
\* last updated within the goal's period
CompletedInPeriod(goal, library) ==
  { i \in DOMAIN library :
      /\ library[i].progress # NoProgress
      /\ library[i].progress.status = COMPLETED
      /\ InPeriod(library[i].progress.updated_at, goal) }

\* C28: the value calculated for a goal whose target type is completed_count
\* is the number of entries of the library that are Completed within the
\* goal's period.
C28_CompletedCount ==
  goalRun.goal.target_type = "completed_count" =>
    goalRun.value = Cardinality(CompletedInPeriod(goalRun.goal, goalRun.library))

(***************************************************************************)
(* Properties of the added marks of the search page (under SpecMarks).     *)
(***************************************************************************)
\* C29: once the library load has completed and no add is pending, a result
\* is marked as added exactly when the library has an entry for its catalog
\* id.
C29_MarkedIffInLibrary ==
  (libraryLoaded /\ adding = {}) =>
     \A s \in ResultIds : IsAdded(s) <=> s \in libraryEntries

(***************************************************************************)
(* Properties of the selection mode of the library page                    *)
(***************************************************************************)
\* C30: on the library page the selected ids are always ids of displayed
\* (filtered) items, and a bulk delete or bulk status change has affected
\* only items that were displayed when it ran.
C30_SelectedAreDisplayed ==
  /\ selectedIds \subseteq DisplayedIds
  /\ lastBulk.affected \subseteq lastBulk.displayed

=============================================================================
